---- MODULE Spec2Model ----
(***************************************************************************)
(* Import tracking, retrying insertion and merge execution of the          *)
(* resilient-marinas data import:                                          *)
(*   src/data_import_logger.py  TableImportMetrics, SystemImportSummary,   *)
(*                              DataImportLogger (the metrics tracker)     *)
(*   src/error_handler.py       ErrorHandler (bulk inserter, merge         *)
(*                              executor, error log)                       *)
(***************************************************************************)
EXTENDS Integers, Sequences, FiniteSets, TLC

(***************************************************************************)
(* Bounds of the model.                                                    *)
(***************************************************************************)
\* start_table_import is called at most MaxRecords times in a run
MaxRecords == 2
\* the tracker's log_* and add_error methods are called at most MaxRecorded
\* times in a run
MaxRecorded == 2
\* a batch handed to the inserter has at most MaxBatch rows
MaxBatch == 2
\* the error log holds at most MaxLog entries
MaxLog == 2
\* the longest batch of a staging insertion that falls back to its rows
MaxFallbackBatch == 6

VARIABLES
    \* ---- DataImportLogger (src/data_import_logger.py:118-122)
    current_metrics,   \* Optional[TableImportMetrics]: <<>> is None, <<m>> is m
    molo_summary,      \* SystemImportSummary("MOLO")
    stellar_summary,   \* SystemImportSummary("Stellar")
    \* ---- observation of the tracker
    started,           \* number of records start_table_import has created
    discarded,         \* number of open records start_table_import has dropped
    recorded,          \* number of log_* and add_error calls so far
    folded,            \* every add_table call so far: <<[sys, m]>>, in order
    last_op,           \* the tracker call just made: [op, sys, raised]
    \* ---- ErrorHandler (src/error_handler.py:47-49)
    error_log,         \* List[dict]
    \* ---- observation of the handler call just made
    call,              \* [op, its inputs, the collaborator calls it made, ret]
    \* ---- the caller of export_summary_to_dict
    snapshot,          \* Optional[dict]: the dict the last export returned
    \* ---- DataValidator (src/data_validator.py:25-26)
    db,                \* the tables behind the db_connector: name -> rows
    \* ---- observation of the validator call just made
    check              \* [op, its inputs, the data-access calls it made, ret]

tracker_vars == <<current_metrics, molo_summary, stellar_summary>>
tracker_obs  == <<started, discarded, recorded, folded, last_op, snapshot>>
handler_vars == <<error_log, call>>
validator_vars == <<db, check>>
vars == <<current_metrics, molo_summary, stellar_summary, started, discarded,
          recorded, folded, last_op, error_log, call, snapshot, db, check>>

(***************************************************************************)
(* Python values.                                                          *)
(***************************************************************************)
\* Optional[T]: None is the empty sequence, a value v is <<v>>
None == <<>>
Some(v) == <<v>>
\* an unset Optional[datetime]
NoTime == 0
\* an empty dict
EmptyDict == [k \in {} |-> <<>>]

RECURSIVE SumSeq(_)
SumSeq(s) == IF s = <<>> THEN 0 ELSE Head(s) + SumSeq(Tail(s))

RECURSIVE SumOver(_, _)
\* sum(f[k] for k in S)
SumOver(f, S) ==
    IF S = {} THEN 0
    ELSE LET k == CHOOSE x \in S : TRUE IN f[k] + SumOver(f, S \ {k})

(***************************************************************************)
(* ImportStage, ImportStatus  (src/data_import_logger.py:15-28)            *)
(***************************************************************************)
ImportStage == {"CSV_EXTRACTION", "STAGING_INSERT", "MERGE_OPERATION", "VALIDATION"}
ImportStatus == {"SUCCESS", "WARNING", "ERROR", "SKIPPED"}

(***************************************************************************)
(* TableImportMetrics  (src/data_import_logger.py:31-70)                   *)
(***************************************************************************)
\* the dataclass constructor as start_table_import calls it
TableImportMetrics(table_name, csv_file, csv_row_count, start_time) ==
    [table_name        |-> table_name,
     csv_file          |-> csv_file,
     csv_row_count     |-> csv_row_count,
     staging_inserted  |-> 0,
     staging_errors    |-> 0,
     merge_matched     |-> 0,
     merge_inserted    |-> 0,
     merge_updated     |-> 0,
     merge_errors      |-> 0,
     validation_passed |-> FALSE,
     validation_issues |-> <<>>,
     stage_errors      |-> EmptyDict,
     start_time        |-> start_time,
     end_time          |-> NoTime]

\* TableImportMetrics.add_error
MetricsAddError(m, stage, error_msg) ==
    LET d == m.stage_errors
        withKey == IF stage \in DOMAIN d THEN d
                   ELSE [s \in DOMAIN d \cup {stage} |->
                            IF s = stage THEN <<>> ELSE d[s]]
    IN [m EXCEPT !.stage_errors =
            [withKey EXCEPT ![stage] = Append(withKey[stage], error_msg)]]

\* a mutant of get_status: the staging test is made before the validation test
GetStatusSkippedFirst(m) ==
    IF m.stage_errors # EmptyDict
       /\ \E s \in DOMAIN m.stage_errors : m.stage_errors[s] # <<>>
    THEN "ERROR"
    ELSE IF m.staging_inserted = 0 THEN "SKIPPED"
    ELSE IF m.validation_issues # <<>> THEN "WARNING"
    ELSE "SUCCESS"

\* TableImportMetrics.get_status
GetStatus(m) ==
    IF m.stage_errors # EmptyDict
       /\ \E s \in DOMAIN m.stage_errors : m.stage_errors[s] # <<>>
    THEN "ERROR"
    ELSE IF m.validation_issues # <<>> THEN "WARNING"
    ELSE IF m.staging_inserted = 0 THEN "SKIPPED"
    ELSE "SUCCESS"

\* sum(len(errors) for errors in metrics.stage_errors.values())
ErrorCount(m) ==
    SumOver([s \in DOMAIN m.stage_errors |-> Len(m.stage_errors[s])],
            DOMAIN m.stage_errors)

(***************************************************************************)
(* SystemImportSummary  (src/data_import_logger.py:73-112)                 *)
(***************************************************************************)
SystemImportSummary(system_name) ==
    [system_name            |-> system_name,
     tables                 |-> EmptyDict,
     start_time             |-> NoTime,
     end_time               |-> NoTime,
     total_csv_rows         |-> 0,
     total_staging_inserted |-> 0,
     total_merge_updates    |-> 0,
     total_merge_inserts    |-> 0,
     total_errors           |-> 0,
     total_warnings         |-> 0]

\* a mutant of add_table: the totals of an entry that is overwritten are
\* taken back, so the totals follow the tables mapping instead of the folds
AddTableReplacing(summary, metrics) ==
    LET old == IF metrics.table_name \in DOMAIN summary.tables
               THEN summary.tables[metrics.table_name]
               ELSE TableImportMetrics(metrics.table_name, "", 0, NoTime)
    IN [summary EXCEPT
        !.tables = [t \in DOMAIN summary.tables \cup {metrics.table_name} |->
                        IF t = metrics.table_name THEN metrics
                        ELSE summary.tables[t]],
        !.total_csv_rows = @ + metrics.csv_row_count - old.csv_row_count,
        !.total_staging_inserted = @ + metrics.staging_inserted
                                     - old.staging_inserted,
        !.total_merge_updates = @ + metrics.merge_updated - old.merge_updated,
        !.total_merge_inserts = @ + metrics.merge_inserted - old.merge_inserted,
        !.total_errors = @ + ErrorCount(metrics) - ErrorCount(old),
        !.total_warnings = @ + Len(metrics.validation_issues)
                             - Len(old.validation_issues)]

\* a mutant of add_table: the validation issues of the record are not added
\* to the warnings total
AddTableUnwarned(summary, metrics) ==
    [summary EXCEPT
        !.tables = [t \in DOMAIN summary.tables \cup {metrics.table_name} |->
                        IF t = metrics.table_name THEN metrics
                        ELSE summary.tables[t]],
        !.total_csv_rows = @ + metrics.csv_row_count,
        !.total_staging_inserted = @ + metrics.staging_inserted,
        !.total_merge_updates = @ + metrics.merge_updated,
        !.total_merge_inserts = @ + metrics.merge_inserted,
        !.total_errors = @ + ErrorCount(metrics)]

\* SystemImportSummary.add_table
AddTable(summary, metrics) ==
    [summary EXCEPT
        !.tables = [t \in DOMAIN summary.tables \cup {metrics.table_name} |->
                        IF t = metrics.table_name THEN metrics
                        ELSE summary.tables[t]],
        !.total_csv_rows = @ + metrics.csv_row_count,
        !.total_staging_inserted = @ + metrics.staging_inserted,
        !.total_merge_updates = @ + metrics.merge_updated,
        !.total_merge_inserts = @ + metrics.merge_inserted,
        !.total_errors = @ + ErrorCount(metrics),
        !.total_warnings = @ + Len(metrics.validation_issues)]

(***************************************************************************)
(* Inputs of the tracker operations.                                       *)
(***************************************************************************)
\* system identifiers callers pass; "other" names no system
SystemNames == {"MOLO", "stellar", "other"}
\* (table_name, csv_file, csv_row_count) of the imports a caller starts
Imports == {<<"BOATS", "boats.csv", 2>>, <<"SLIPS", "slips.csv", 0>>}
\* (inserted_count, error_count)
StagingResults == {<<2, 1>>}
\* (matched, inserted, updated, error_count)
MergeResults == {<<3, 2, 1, 1>>}
\* (passed, issues) with issues None, [] or a list of messages
ValidationResults == {<<TRUE, None>>, <<FALSE, Some(<<"row count mismatch">>)>>}
\* the stages callers report errors for
ReportedStages == {"STAGING_INSERT", "MERGE_OPERATION"}
ErrorMsgs == {"insert failed"}
\* system identifiers in the spellings callers use
RunNames == {"MOLO", "molo", "Stellar", "stellar", "other"}
\* the results of the k-th recording call of a caller that reports growing
\* counts: (inserted_count, error_count) and (matched, inserted, updated,
\* error_count)
StagingAt(k) == <<2 + k, k>>
MergeAt(k) == <<3 + k, 2, 1 + k, k>>
\* (passed, issues), an empty list of issues among them
RecordValidations == ValidationResults \cup {<<TRUE, Some(<<>>)>>}
\* the values datetime.now() returns; NoTime is none of them
Times == {1}

\* str.upper() on the system identifiers
Upper(s) ==
    CASE s = "MOLO" -> "MOLO"
      [] s = "molo" -> "MOLO"
      [] s = "Stellar" -> "STELLAR"
      [] s = "stellar" -> "STELLAR"
      [] s = "other" -> "OTHER"

(***************************************************************************)
(* DataImportLogger  (src/data_import_logger.py:115-232)                   *)
(***************************************************************************)
\* a mutant of _get_summary: the identifier is compared as it is written
GetSummaryExact(system_name) ==
    IF system_name = "MOLO" THEN "molo_summary"
    ELSE IF system_name = "STELLAR" THEN "stellar_summary"
    ELSE "ValueError"

\* _get_summary: which summary object a system identifier selects
GetSummary(system_name) ==
    IF Upper(system_name) = "MOLO" THEN "molo_summary"
    ELSE IF Upper(system_name) = "STELLAR" THEN "stellar_summary"
    ELSE "ValueError"

\* the summary object behind a selector
Deref(sel) == IF sel = "molo_summary" THEN molo_summary ELSE stellar_summary

\* assignment through the reference _get_summary returned
Assign(sel, value) ==
    IF sel = "molo_summary"
    THEN molo_summary' = value /\ UNCHANGED stellar_summary
    ELSE stellar_summary' = value /\ UNCHANGED molo_summary

Ran(op, system_name, raised) ==
    last_op' = [op |-> op, sys |-> system_name, raised |-> raised]

\* start_system_import
StartSystemImport(system_name) ==
    LET sel == GetSummary(system_name) IN
    /\ IF sel = "ValueError"
       THEN /\ Ran("start_system_import", system_name, "ValueError")
            /\ UNCHANGED <<molo_summary, stellar_summary>>
       ELSE /\ \E t \in Times : Assign(sel, [Deref(sel) EXCEPT !.start_time = t])
            /\ Ran("start_system_import", system_name, "")
    /\ UNCHANGED <<current_metrics, started, discarded, recorded, folded,
                   snapshot, handler_vars, validator_vars>>

\* end_system_import
EndSystemImport(system_name) ==
    LET sel == GetSummary(system_name) IN
    /\ IF sel = "ValueError"
       THEN /\ Ran("end_system_import", system_name, "ValueError")
            /\ UNCHANGED <<molo_summary, stellar_summary>>
       ELSE /\ \E t \in Times : Assign(sel, [Deref(sel) EXCEPT !.end_time = t])
            /\ Ran("end_system_import", system_name, "")
    /\ UNCHANGED <<current_metrics, started, discarded, recorded, folded,
                   snapshot, handler_vars, validator_vars>>

\* a mutant of start_table_import: a record still open is closed into the
\* named system's summary before the new one is opened
StartTableImportFolding(system_name, table_name, csv_file, csv_row_count) ==
    /\ started < MaxRecords
    /\ started' = started + 1
    /\ \E t \in Times :
         current_metrics' =
            Some(TableImportMetrics(table_name, csv_file, csv_row_count, t))
    /\ IF current_metrics # None /\ GetSummary(system_name) # "ValueError"
       THEN /\ Assign(GetSummary(system_name),
                      AddTable(Deref(GetSummary(system_name)), current_metrics[1]))
            /\ folded' = Append(folded, [sys |-> GetSummary(system_name),
                                         m |-> current_metrics[1]])
       ELSE UNCHANGED <<molo_summary, stellar_summary, folded>>
    /\ discarded' = IF current_metrics = None THEN discarded ELSE discarded + 1
    /\ Ran("start_table_import", system_name, "")
    /\ UNCHANGED <<recorded, snapshot, handler_vars, validator_vars>>

\* start_table_import
StartTableImport(system_name, table_name, csv_file, csv_row_count) ==
    /\ started < MaxRecords
    /\ started' = started + 1
    /\ \E t \in Times :
         current_metrics' =
            Some(TableImportMetrics(table_name, csv_file, csv_row_count, t))
    /\ discarded' = IF current_metrics = None THEN discarded ELSE discarded + 1
    /\ Ran("start_table_import", system_name, "")
    /\ UNCHANGED <<molo_summary, stellar_summary, recorded, folded, snapshot, handler_vars, validator_vars>>

\* a mutant of end_table_import: the open-record slot is not cleared
EndTableImportKeepingOpen(system_name) ==
    /\ IF current_metrics = None
       THEN /\ Ran("end_table_import", system_name, "")
            /\ UNCHANGED <<tracker_vars, folded>>
       ELSE \E t \in Times :
            LET ended == [current_metrics[1] EXCEPT !.end_time = t]
                sel == GetSummary(system_name)
            IN IF sel = "ValueError"
               THEN /\ current_metrics' = Some(ended)
                    /\ Ran("end_table_import", system_name, "ValueError")
                    /\ UNCHANGED <<molo_summary, stellar_summary, folded>>
               ELSE /\ Assign(sel, AddTable(Deref(sel), ended))
                    /\ folded' = Append(folded, [sys |-> sel, m |-> ended])
                    /\ current_metrics' = Some(ended)
                    /\ Ran("end_table_import", system_name, "")
    /\ UNCHANGED <<started, discarded, recorded, snapshot, handler_vars, validator_vars>>

\* a mutant of end_table_import: a record that was just opened is folded into
\* the summary of the system named when it was opened
EndTableImportWhereStarted(system_name) ==
    /\ IF current_metrics = None
       THEN /\ Ran("end_table_import", system_name, "")
            /\ UNCHANGED <<tracker_vars, folded>>
       ELSE \E t \in Times :
            LET ended == [current_metrics[1] EXCEPT !.end_time = t]
                sel == GetSummary(IF last_op.op = "start_table_import"
                                  THEN last_op.sys ELSE system_name)
            IN IF sel = "ValueError"
               THEN /\ current_metrics' = Some(ended)
                    /\ Ran("end_table_import", system_name, "ValueError")
                    /\ UNCHANGED <<molo_summary, stellar_summary, folded>>
               ELSE /\ Assign(sel, AddTable(Deref(sel), ended))
                    /\ folded' = Append(folded, [sys |-> sel, m |-> ended])
                    /\ current_metrics' = None
                    /\ Ran("end_table_import", system_name, "")
    /\ UNCHANGED <<started, discarded, recorded, snapshot, handler_vars, validator_vars>>

\* a mutant of end_table_import: the summary is looked up before the test for
\* an open record, so a name of no system raises even when nothing is open
EndTableImportLookupFirst(system_name) ==
    /\ IF GetSummary(system_name) = "ValueError"
       THEN /\ Ran("end_table_import", system_name, "ValueError")
            /\ UNCHANGED <<tracker_vars, folded>>
       ELSE IF current_metrics = None
       THEN /\ Ran("end_table_import", system_name, "")
            /\ UNCHANGED <<tracker_vars, folded>>
       ELSE \E t \in Times :
            LET ended == [current_metrics[1] EXCEPT !.end_time = t]
                sel == GetSummary(system_name)
            IN /\ Assign(sel, AddTable(Deref(sel), ended))
               /\ folded' = Append(folded, [sys |-> sel, m |-> ended])
               /\ current_metrics' = None
               /\ Ran("end_table_import", system_name, "")
    /\ UNCHANGED <<started, discarded, recorded, snapshot, handler_vars, validator_vars>>

\* end_table_import
EndTableImport(system_name) ==
    /\ IF current_metrics = None
       THEN /\ Ran("end_table_import", system_name, "")
            /\ UNCHANGED <<tracker_vars, folded>>
       ELSE \E t \in Times :
            LET ended == [current_metrics[1] EXCEPT !.end_time = t]
                sel == GetSummary(system_name)
            IN IF sel = "ValueError"
               THEN \* end_time is already assigned when _get_summary raises
                    /\ current_metrics' = Some(ended)
                    /\ Ran("end_table_import", system_name, "ValueError")
                    /\ UNCHANGED <<molo_summary, stellar_summary, folded>>
               ELSE /\ Assign(sel, AddTable(Deref(sel), ended))
                    /\ folded' = Append(folded, [sys |-> sel, m |-> ended])
                    /\ current_metrics' = None
                    /\ Ran("end_table_import", system_name, "")
    /\ UNCHANGED <<started, discarded, recorded, snapshot, handler_vars, validator_vars>>

\* what every log_* and add_error call leaves alone
Recording(op) ==
    /\ recorded < MaxRecorded
    /\ recorded' = recorded + 1
    /\ Ran(op, "", "")
    /\ UNCHANGED <<molo_summary, stellar_summary, started, discarded, folded,
                   snapshot, handler_vars, validator_vars>>

\* a mutant of log_staging_insert: without an open record, one is created
LogStagingInsertOpening(inserted_count, error_count) ==
    /\ current_metrics' =
         Some([(IF current_metrics # None THEN current_metrics[1]
                ELSE TableImportMetrics("", "", 0, NoTime)) EXCEPT
                  !.staging_inserted = inserted_count,
                  !.staging_errors = error_count])
    /\ Recording("log_staging_insert")

\* a mutant of log_staging_insert: without an open record, the call writes to
\* the record that was folded last, as if the slot still referred to it
LogStagingInsertFolded(inserted_count, error_count) ==
    /\ recorded < MaxRecorded
    /\ recorded' = recorded + 1
    /\ Ran("log_staging_insert", "", "")
    /\ IF current_metrics # None
       THEN /\ current_metrics' =
                 Some([current_metrics[1] EXCEPT
                          !.staging_inserted = inserted_count,
                          !.staging_errors = error_count])
            /\ UNCHANGED <<molo_summary, stellar_summary>>
       ELSE IF folded # <<>>
       THEN LET f == folded[Len(folded)] IN
            /\ Assign(f.sys, [Deref(f.sys) EXCEPT
                                 !.tables[f.m.table_name].staging_inserted =
                                     inserted_count,
                                 !.tables[f.m.table_name].staging_errors =
                                     error_count])
            /\ UNCHANGED current_metrics
       ELSE UNCHANGED tracker_vars
    /\ UNCHANGED <<started, discarded, folded, snapshot, handler_vars,
                   validator_vars>>

\* log_staging_insert
LogStagingInsert(inserted_count, error_count) ==
    /\ IF current_metrics # None
       THEN current_metrics' =
                 Some([current_metrics[1] EXCEPT
                          !.staging_inserted = inserted_count,
                          !.staging_errors = error_count])
       ELSE UNCHANGED current_metrics
    /\ Recording("log_staging_insert")

\* log_merge_operation
LogMergeOperation(matched, inserted, updated, error_count) ==
    /\ IF current_metrics # None
       THEN current_metrics' =
                 Some([current_metrics[1] EXCEPT
                          !.merge_matched = matched,
                          !.merge_inserted = inserted,
                          !.merge_updated = updated,
                          !.merge_errors = error_count])
       ELSE UNCHANGED current_metrics
    /\ Recording("log_merge_operation")

\* a mutant of log_validation_result: the issues of the call take the place
\* of the issues the record holds
LogValidationResultReplacing(passed, issues) ==
    /\ IF current_metrics # None
       THEN current_metrics' =
                 Some([current_metrics[1] EXCEPT
                          !.validation_passed = passed,
                          !.validation_issues =
                              IF issues # None THEN issues[1] ELSE <<>>])
       ELSE UNCHANGED current_metrics
    /\ Recording("log_validation_result")

\* log_validation_result; issues is None or Some(list)
LogValidationResult(passed, issues) ==
    /\ IF current_metrics # None
       THEN current_metrics' =
                 Some([current_metrics[1] EXCEPT
                          !.validation_passed = passed,
                          !.validation_issues =
                              IF issues # None /\ issues[1] # <<>>
                              THEN @ \o issues[1] ELSE @])
       ELSE UNCHANGED current_metrics
    /\ Recording("log_validation_result")

\* DataImportLogger.add_error
AddError(stage, error_msg) ==
    /\ IF current_metrics # None
       THEN current_metrics' =
                 Some(MetricsAddError(current_metrics[1], stage, error_msg))
       ELSE UNCHANGED current_metrics
    /\ Recording("add_error")

\* a float, kept as the exact fraction num / den
Ratio(num, den) == [num |-> num, den |-> den]

\* SystemImportSummary.get_duration
GetDuration(summary) ==
    IF summary.start_time # NoTime /\ summary.end_time # NoTime
    THEN Some(summary.end_time - summary.start_time)
    ELSE None

\* a mutant of get_success_rate: every table that is not in error counts
GetSuccessRateOfUnfailed(summary) ==
    IF DOMAIN summary.tables = {} THEN Ratio(0, 1)
    ELSE LET successful ==
                 SumOver([t \in DOMAIN summary.tables |->
                            IF GetStatus(summary.tables[t]) # "ERROR"
                            THEN 1 ELSE 0],
                         DOMAIN summary.tables)
         IN Ratio(successful * 100, Cardinality(DOMAIN summary.tables))

\* SystemImportSummary.get_success_rate: (successful / len(tables)) * 100
GetSuccessRate(summary) ==
    IF DOMAIN summary.tables = {} THEN Ratio(0, 1)
    ELSE LET successful ==
                 SumOver([t \in DOMAIN summary.tables |->
                            IF GetStatus(summary.tables[t]) = "SUCCESS"
                            THEN 1 ELSE 0],
                         DOMAIN summary.tables)
         IN Ratio(successful * 100, Cardinality(DOMAIN summary.tables))

\* ImportStatus.value, without its leading symbol
StatusValue(status) ==
    CASE status = "SUCCESS" -> "Success"
      [] status = "WARNING" -> "Warning"
      [] status = "ERROR"   -> "Error"
      [] status = "SKIPPED" -> "Skipped"

\* datetime.isoformat
IsoFormat(t) == ToString(t)

\* a mutant of _summary_to_dict: "tables" is the mapping of the summary
\* itself, [ref |-> system_name], and not a dict built from it
SummaryToDictSharing(summary) ==
    [system_name            |-> summary.system_name,
     tables_processed       |-> Cardinality(DOMAIN summary.tables),
     success_rate           |-> GetSuccessRate(summary),
     total_csv_rows         |-> summary.total_csv_rows,
     total_staging_inserted |-> summary.total_staging_inserted,
     total_merge_inserts    |-> summary.total_merge_inserts,
     total_merge_updates    |-> summary.total_merge_updates,
     total_errors           |-> summary.total_errors,
     total_warnings         |-> summary.total_warnings,
     duration_seconds       |-> GetDuration(summary),
     tables                 |-> [ref |-> summary.system_name]]

\* DataImportLogger._summary_to_dict: every value is a str, an int, a float
\* or None, in dicts that are built here
SummaryToDict(summary) ==
    [system_name            |-> summary.system_name,
     tables_processed       |-> Cardinality(DOMAIN summary.tables),
     success_rate           |-> GetSuccessRate(summary),
     total_csv_rows         |-> summary.total_csv_rows,
     total_staging_inserted |-> summary.total_staging_inserted,
     total_merge_inserts    |-> summary.total_merge_inserts,
     total_merge_updates    |-> summary.total_merge_updates,
     total_errors           |-> summary.total_errors,
     total_warnings         |-> summary.total_warnings,
     duration_seconds       |-> GetDuration(summary),
     tables                 |->
        [name \in DOMAIN summary.tables |->
           LET m == summary.tables[name] IN
           [csv_file         |-> m.csv_file,
            csv_rows         |-> m.csv_row_count,
            staging_inserted |-> m.staging_inserted,
            merge_updated    |-> m.merge_updated,
            merge_inserted   |-> m.merge_inserted,
            status           |-> StatusValue(GetStatus(m)),
            errors           |-> ErrorCount(m),
            warnings         |-> Len(m.validation_issues)]]]

\* DataImportLogger.export_summary_to_dict; the caller keeps the dict
ExportSummaryToDict ==
    /\ \E t \in Times :
         snapshot' = Some([molo      |-> SummaryToDict(molo_summary),
                           stellar   |-> SummaryToDict(stellar_summary),
                           timestamp |-> IsoFormat(t)])
    /\ Ran("export_summary_to_dict", "", "")
    /\ UNCHANGED <<tracker_vars, started, discarded, recorded, folded,
                   handler_vars, validator_vars>>

(***************************************************************************)
(* ErrorHandler  (src/error_handler.py:34-306)                             *)
(*                                                                         *)
(* A handler call is one action.  What its collaborators do is an input:   *)
(* the outcome of each invocation of the insert operation, of              *)
(* cursor.execute and of connection.commit is the value Ok or a fault      *)
(* [cls, msg].  cls "DatabaseError" is oracledb.DatabaseError, whose       *)
(* single argument carries the message; any other cls is an exception      *)
(* outside that class.  connection.rollback() is taken to complete.        *)
(***************************************************************************)
Ok == [cls |-> "ok", msg |-> ""]
\* what the insert operation may raise
InsertFaults == {[cls |-> "DatabaseError", msg |-> "ORA-00001"],
                 [cls |-> "TypeError", msg |-> "bad row"]}
\* what cursor.execute and connection.commit may raise
MergeFaults == {[cls |-> "DatabaseError", msg |-> "ORA-06550"],
                [cls |-> "DatabaseError", msg |-> "ORA-01403"],
                [cls |-> "RuntimeError", msg |-> "connection lost"]}
\* cursor.rowcount after the merge routine
RowCounts == {0, 3}
StagingTables == {"STG_BOATS"}
Procedures == {"SP_MERGE_BOATS"}
MergeTables == {"DW_BOATS"}

\* the rows of a batch of n rows: row i is the tuple (i,)
Batch(n) == [i \in 1..n |-> <<i>>]
\* str(row)[:200]
RowStr(row) == "(" \o ToString(row[1]) \o ",)"

\* a mutant: every exception is taken for an oracledb.DatabaseError
IsAnyException(e) == e # Ok

\* except oracledb.DatabaseError as e
IsDatabaseError(e) == e.cls = "DatabaseError"

\* error_obj.message, where error_obj, = e.args
Message(e) == e.msg
\* str(e)
Str(e) == e.msg

Return(v) == [kind |-> "return", value |-> v]
Raise(exc, cause) == [kind |-> "raise", exc |-> exc, cause |-> cause]

\* a mutant of _log_error: the entry is put at the front of the log
LogErrorPrepending(log, error_type, context, message, metadata) ==
    <<[type |-> error_type, context |-> context,
       message |-> message, metadata |-> metadata]>> \o log

\* _log_error
LogError(log, error_type, context, message, metadata) ==
    Append(log, [type |-> error_type, context |-> context,
                 message |-> message, metadata |-> metadata])

\* the number of row failures _insert_row_by_row records with detail
DetailedFailures == 5

\* a mutant of _insert_row_by_row: the loop ends at the first failing row
RECURSIVE InsertRowByRowBreaking(_, _, _, _, _)
InsertRowByRowBreaking(table_name, data_rows, outcome, idx, acc) ==
    IF idx >= Len(data_rows) THEN acc
    ELSE LET row == data_rows[idx + 1]
             e == outcome[idx + 2]
             invoked == Append(acc.invoked, [args |-> <<row>>, outcome |-> e])
         IN IF e = Ok
            THEN InsertRowByRowBreaking(table_name, data_rows, outcome, idx + 1,
                    [acc EXCEPT !.success_count = @ + 1, !.invoked = invoked])
            ELSE [acc EXCEPT
                    !.error_count = @ + 1,
                    !.invoked = invoked,
                    !.log = LogError(@, "staging_insert", table_name, Str(e),
                                     [row_index |-> idx, row_data |-> RowStr(row)])]

\* a mutant of _insert_row_by_row: the failures of the first five rows are
\* recorded, not the first five failures
RECURSIVE InsertRowByRowFirstRows(_, _, _, _, _)
InsertRowByRowFirstRows(table_name, data_rows, outcome, idx, acc) ==
    IF idx >= Len(data_rows) THEN acc
    ELSE LET row == data_rows[idx + 1]
             e == outcome[idx + 2]
             invoked == Append(acc.invoked, [args |-> <<row>>, outcome |-> e])
         IN IF e = Ok
            THEN InsertRowByRowFirstRows(table_name, data_rows, outcome, idx + 1,
                    [acc EXCEPT !.success_count = @ + 1, !.invoked = invoked])
            ELSE InsertRowByRowFirstRows(table_name, data_rows, outcome, idx + 1,
                    [acc EXCEPT
                       !.error_count = @ + 1,
                       !.invoked = invoked,
                       !.log = IF idx + 1 <= DetailedFailures
                               THEN LogError(@, "staging_insert", table_name, Str(e),
                                             [row_index |-> idx,
                                              row_data |-> RowStr(row)])
                               ELSE @])

\* _insert_row_by_row, from the row of index idx (0-based) on; acc holds
\* success_count, error_count, the error log and the invocations so far
RECURSIVE InsertRowByRow(_, _, _, _, _)
InsertRowByRow(table_name, data_rows, outcome, idx, acc) ==
    IF idx >= Len(data_rows) THEN acc
    ELSE LET row == data_rows[idx + 1]
             e == outcome[idx + 2]
             invoked == Append(acc.invoked, [args |-> <<row>>, outcome |-> e])
         IN IF e = Ok
            THEN InsertRowByRow(table_name, data_rows, outcome, idx + 1,
                    [acc EXCEPT !.success_count = @ + 1, !.invoked = invoked])
            ELSE InsertRowByRow(table_name, data_rows, outcome, idx + 1,
                    [acc EXCEPT
                       !.error_count = @ + 1,
                       !.invoked = invoked,
                       !.log = IF acc.error_count + 1 <= DetailedFailures
                               THEN LogError(@, "staging_insert", table_name, Str(e),
                                             [row_index |-> idx,
                                              row_data |-> RowStr(row)])
                               ELSE @])

\* a mutant: the test for an empty batch is missing
NoDataNever(data_rows) == FALSE

\* not data_rows
NoData(data_rows) == data_rows = <<>>

\* a mutant of handle_staging_insert: after a bulk insert that succeeded the
\* rows are inserted one by one all the same
StagingInsertTwice(table_name, data_rows, outcome, log) ==
    LET bulk == [args |-> data_rows, outcome |-> outcome[1]]
        r == InsertRowByRow(table_name, data_rows, outcome, 0,
                 [success_count |-> 0, error_count |-> 0, log |-> log,
                  invoked |-> <<bulk>>])
    IN [ret |-> Return(<<r.success_count, r.error_count>>),
        invoked |-> r.invoked, log |-> r.log]

\* handle_staging_insert: what it returns or raises, the invocations of the
\* insert operation it makes and the error log it leaves.  outcome[1] is the
\* outcome of the bulk invocation, outcome[i + 1] that of the invocation for
\* row i.
StagingInsert(table_name, data_rows, outcome, log) ==
    IF NoData(data_rows)
    THEN [ret |-> Return(<<0, 0>>), invoked |-> <<>>, log |-> log]
    ELSE
      LET bulk == [args |-> data_rows, outcome |-> outcome[1]] IN
      IF outcome[1] = Ok
      THEN [ret |-> Return(<<Len(data_rows), 0>>),
            invoked |-> <<bulk>>, log |-> log]
      ELSE IF IsDatabaseError(outcome[1])
      THEN LET r == InsertRowByRow(table_name, data_rows, outcome, 0,
                       [success_count |-> 0, error_count |-> 0, log |-> log,
                        invoked |-> <<bulk>>])
           IN [ret |-> Return(<<r.success_count, r.error_count>>),
               invoked |-> r.invoked, log |-> r.log]
      ELSE [ret |-> Raise("StagingInsertError", outcome[1]),
            invoked |-> <<bulk>>,
            log |-> LogError(log, "staging_insert", table_name, Str(outcome[1]),
                             [row_count |-> Len(data_rows)])]

\* the outcomes the insert operation may have on a batch of n rows; the
\* rows are invoked one by one only after a DatabaseError of the bulk
\* invocation, so elsewhere their outcomes are left at Ok
InsertOutcomes(n) ==
    {o \in [1..(n + 1) -> {Ok} \cup InsertFaults] :
        (n = 0 \/ ~IsDatabaseError(o[1])) => \A i \in 2..(n + 1) : o[i] = Ok}

\* handle_staging_insert
HandleStagingInsert(table_name, data_rows, outcome) ==
    LET r == StagingInsert(table_name, data_rows, outcome, error_log) IN
    /\ Len(r.log) <= MaxLog
    /\ error_log' = r.log
    /\ call' = [op |-> "handle_staging_insert", data_rows |-> data_rows,
                outcome |-> outcome, invoked |-> r.invoked, ret |-> r.ret]
    /\ UNCHANGED <<tracker_vars, tracker_obs, validator_vars>>

\* handle_staging_insert, called once in a behaviour, on a log of any length
HandleStagingInsertOnce(table_name, data_rows, outcome) ==
    LET r == StagingInsert(table_name, data_rows, outcome, error_log) IN
    /\ call.op # "handle_staging_insert"
    /\ error_log' = r.log
    /\ call' = [op |-> "handle_staging_insert", data_rows |-> data_rows,
                outcome |-> outcome, invoked |-> r.invoked, ret |-> r.ret]
    /\ UNCHANGED <<tracker_vars, tracker_obs, validator_vars>>

\* the dict handle_merge_operation returns when the merge failed
MergeFailure(error_msg) ==
    [matched |-> 0, inserted |-> 0, updated |-> 0, errors |-> 1,
     success |-> FALSE, error_message |-> error_msg]

\* a mutant of the except clauses of handle_merge_operation: a
\* DatabaseError is wrapped and raised like any other exception
MergeFailedRaising(procedure_name, table_name, e, events, log) ==
    [ret |-> Raise("MergeOperationError", e),
     events |-> events \o <<"_log_error", "rollback">>,
     log |-> LogError(log, "merge_operation", procedure_name, Str(e),
                      [table_name |-> table_name])]

\* a mutant of the except clauses of handle_merge_operation: the clause for
\* an exception that is no DatabaseError raises without rolling back
MergeFailedUnrolled(procedure_name, table_name, e, events, log) ==
    IF IsDatabaseError(e)
    THEN [ret |-> Return(MergeFailure(Message(e))),
          events |-> events \o <<"_log_error", "rollback">>,
          log |-> LogError(log, "merge_operation", procedure_name, Message(e),
                           [table_name |-> table_name])]
    ELSE [ret |-> Raise("MergeOperationError", e),
          events |-> events \o <<"_log_error">>,
          log |-> LogError(log, "merge_operation", procedure_name, Str(e),
                           [table_name |-> table_name])]

\* the except clauses of handle_merge_operation, entered with the
\* exception e after the collaborator calls in events
MergeFailed(procedure_name, table_name, e, events, log) ==
    IF IsDatabaseError(e)
    THEN [ret |-> Return(MergeFailure(Message(e))),
          events |-> events \o <<"_log_error", "rollback">>,
          log |-> LogError(log, "merge_operation", procedure_name, Message(e),
                           [table_name |-> table_name])]
    ELSE [ret |-> Raise("MergeOperationError", e),
          events |-> events \o <<"_log_error", "rollback">>,
          log |-> LogError(log, "merge_operation", procedure_name, Str(e),
                           [table_name |-> table_name])]

\* a mutant of handle_merge_operation: the merge that completed is
\* reported without being committed
MergeOperationUncommitted(procedure_name, table_name, executed, row_count, committed, log) ==
    IF executed # Ok
    THEN MergeFailed(procedure_name, table_name, executed, <<"execute">>, log)
    ELSE [ret |-> Return([matched |-> row_count, inserted |-> 0, updated |-> 0,
                          errors |-> 0, success |-> TRUE]),
          events |-> <<"execute">>,
          log |-> log]

\* a mutant of handle_merge_operation: an exception of connection.commit is
\* swallowed and the merge reported as a success
MergeOperationCommitIgnored(procedure_name, table_name, executed, row_count, committed, log) ==
    IF executed # Ok
    THEN MergeFailed(procedure_name, table_name, executed, <<"execute">>, log)
    ELSE [ret |-> Return([matched |-> row_count, inserted |-> 0, updated |-> 0,
                          errors |-> 0, success |-> TRUE]),
          events |-> <<"execute", "commit">>,
          log |-> log]

\* handle_merge_operation: executed is the outcome of cursor.execute,
\* row_count the cursor's rowcount after it, committed the outcome of
\* connection.commit
MergeOperation(procedure_name, table_name, executed, row_count, committed, log) ==
    IF executed # Ok
    THEN MergeFailed(procedure_name, table_name, executed, <<"execute">>, log)
    ELSE IF committed # Ok
    THEN MergeFailed(procedure_name, table_name, committed,
                     <<"execute", "commit">>, log)
    ELSE [ret |-> Return([matched |-> row_count, inserted |-> 0, updated |-> 0,
                          errors |-> 0, success |-> TRUE]),
          events |-> <<"execute", "commit">>,
          log |-> log]

\* handle_merge_operation
HandleMergeOperation(procedure_name, table_name, executed, row_count, committed) ==
    LET r == MergeOperation(procedure_name, table_name, executed, row_count,
                            committed, error_log) IN
    /\ Len(r.log) <= MaxLog
    /\ error_log' = r.log
    /\ call' = [op |-> "handle_merge_operation", executed |-> executed,
                row_count |-> row_count, committed |-> committed,
                events |-> r.events, ret |-> r.ret]
    /\ UNCHANGED <<tracker_vars, tracker_obs, validator_vars>>

\* what a validation function handed to handle_validation does: it returns
\* (passed, issues) or raises
ValidationOutcomes ==
    {Return(<<TRUE, <<>>>>), Return(<<FALSE, <<"Row count mismatch">>>>),
     Raise("DatabaseError", [cls |-> "DatabaseError", msg |-> "ORA-03113"]),
     Raise("KeyError", [cls |-> "KeyError", msg |-> "ID"])}

\* f"Validation exception: {str(e)}"
ValidationException(e) == [issue |-> "Validation exception", msg |-> Str(e)]

\* a mutant of handle_validation: the exception is logged and raised again
ValidationRaising(validation_func, outcome, log) ==
    IF outcome.kind = "return"
    THEN [ret |-> Return(outcome.value), log |-> log]
    ELSE [ret |-> Raise(outcome.exc, outcome.cause),
          log |-> LogError(log, "validation", validation_func,
                           Str(outcome.cause), [args |-> "()"])]

\* handle_validation: outcome is what validation_func(*args, **kwargs) does
Validation(validation_func, outcome, log) ==
    IF outcome.kind = "return"
    THEN [ret |-> Return(outcome.value), log |-> log]
    ELSE [ret |-> Return(<<FALSE, <<ValidationException(outcome.cause)>>>>),
          log |-> LogError(log, "validation", validation_func,
                           Str(outcome.cause), [args |-> "()"])]

\* handle_validation
HandleValidation(validation_func, outcome) ==
    LET r == Validation(validation_func, outcome, error_log) IN
    /\ Len(r.log) <= MaxLog
    /\ error_log' = r.log
    /\ call' = [op |-> "handle_validation", outcome |-> outcome, ret |-> r.ret]
    /\ UNCHANGED <<tracker_vars, tracker_obs, validator_vars>>

\* a call of _log_error on its own
LogErrorCall(error_type, context, message) ==
    /\ Len(error_log) < MaxLog
    /\ error_log' = LogError(error_log, error_type, context, message, EmptyDict)
    /\ call' = [op |-> "_log_error", type |-> error_type, context |-> context,
                message |-> message]
    /\ UNCHANGED <<tracker_vars, tracker_obs, validator_vars>>

\* the loop of get_error_summary over the entries from idx on
RECURSIVE CountByType(_, _, _)
CountByType(log, idx, error_counts) ==
    IF idx > Len(log) THEN error_counts
    ELSE LET error_type == log[idx].type
             counted == IF error_type \in DOMAIN error_counts
                        THEN error_counts[error_type] ELSE 0
         IN CountByType(log, idx + 1,
                [t \in DOMAIN error_counts \cup {error_type} |->
                    IF t = error_type THEN counted + 1 ELSE error_counts[t]])

\* the dict get_error_summary returns; "errors" is the log itself
ErrorSummary(log) ==
    [total_errors |-> Len(log),
     by_type |-> CountByType(log, 1, EmptyDict),
     errors |-> log]

\* get_error_summary
GetErrorSummary ==
    /\ call' = [op |-> "get_error_summary", ret |-> Return(ErrorSummary(error_log))]
    /\ UNCHANGED <<error_log, tracker_vars, tracker_obs, validator_vars>>

\* clear_errors
ClearErrors ==
    /\ error_log' = <<>>
    /\ call' = [op |-> "clear_errors"]
    /\ UNCHANGED <<tracker_vars, tracker_obs, validator_vars>>

(***************************************************************************)
(* DataValidator (src/data_validator.py).                                  *)
(***************************************************************************)
\* the longest CSV of one or two values per row, beyond the fixed long ones
MaxCsvRows == 2
\* the most rows of a staging, warehouse or child table
MaxTableRows == 2
\* the most rows of a parent table
MaxParentRows == 1
\* csv_rows[:5]
SampleSize == 5

SeqsUpTo(S, n) == UNION {[1..k -> S] : k \in 0..n}
Min(a, b) == IF a < b THEN a ELSE b
\* abs
Abs(n) == IF n < 0 THEN 0 - n ELSE n

\* ---- the database behind the data-access capability
\* SQL NULL is None, a number n is Some(n); a row maps column names to them
StagingTable == "STG_MOLO_BOATS"
DwTable == "DW_MOLO_BOATS"
ChildTable == "DW_MOLO_SLIPS"
ParentTable == "DW_MOLO_MARINAS"
ForeignKey == "MARINA_ID"

Database(staging, dw, child, parent) ==
    [STG_MOLO_BOATS |-> staging, DW_MOLO_BOATS |-> dw,
     DW_MOLO_SLIPS |-> child, DW_MOLO_MARINAS |-> parent]

\* a table of n rows that all carry the id 1
Filled(n) == [i \in 1..n |-> [ID |-> Some(1)]]

StagingContents ==
    SeqsUpTo({[ID |-> None], [ID |-> Some(1)]}, MaxTableRows)
        \cup {Filled(SampleSize + 1)}
DwContents ==
    SeqsUpTo({[ID |-> Some(1)], [ID |-> Some(2)]}, MaxTableRows)
        \cup {Filled(SampleSize + 1)}
ChildContents ==
    SeqsUpTo({[ID |-> Some(1), MARINA_ID |-> v] : v \in {None, Some(1), Some(2)}},
             MaxTableRows)
ParentContents ==
    SeqsUpTo({[ID |-> Some(1)], [ID |-> Some(2)]}, MaxParentRows)

\* the databases a check is run against: one pair of tables is filled
Databases ==
    {Database(s, w, <<>>, <<>>) : s \in StagingContents, w \in DwContents}
        \cup {Database(<<>>, <<>>, c, p) : c \in ChildContents, p \in ParentContents}

\* the exception a data-access call raises when it is made to fail
DbFault == [cls |-> "DatabaseError", msg |-> "ORA-03113"]

\* a data-access call made by a check: the helper and the table it reads
DataAccess(helper, table_name) == [helper |-> helper, table |-> table_name]
\* the call (helper, table) is among those that fail
Faulting(faults, helper, table_name) == DataAccess(helper, table_name) \in faults

\* SELECT COUNT(*) FROM table
SelectCount(table) == Len(table)
\* SELECT column FROM table WHERE column IN (ids): the values fetched, the
\* bound strings being compared with the column as numbers
SelectIn(table, column, ids) ==
    LET bound == {ids[i] : i \in 1..Len(ids)}
        Match(row) == row[column] # None /\ ToString(row[column][1]) \in bound
        matching == SelectSeq(table, Match)
    IN [i \in 1..Len(matching) |-> matching[i][column][1]]
\* SELECT COUNT(*) FROM table WHERE column IS NULL
SelectCountNull(table, column) ==
    Cardinality({i \in 1..Len(table) : table[i][column] = None})
\* a mutant of the orphan query: it lacks the IS NOT NULL condition, and no
\* parent key equals a NULL foreign key
SelectOrphanCountWithNulls(child, parent, foreign_key, parent_key) ==
    Cardinality({i \in 1..Len(child) :
        ~ \E j \in 1..Len(parent) :
            /\ child[i][foreign_key] # None
            /\ parent[j][parent_key] # None
            /\ parent[j][parent_key] = child[i][foreign_key]})

\* SELECT COUNT(*) FROM child c WHERE c.fk IS NOT NULL AND NOT EXISTS
\* (SELECT 1 FROM parent p WHERE p.pk = c.fk); a NULL p.pk equals nothing
SelectOrphanCount(child, parent, foreign_key, parent_key) ==
    Cardinality({i \in 1..Len(child) :
        /\ child[i][foreign_key] # None
        /\ ~ \E j \in 1..Len(parent) :
               /\ parent[j][parent_key] # None
               /\ parent[j][parent_key] = child[i][foreign_key]})

\* ---- the CSV
\* csv.DictReader: every row maps the header's one column to a string
Csv(column, values) == [i \in 1..Len(values) |-> [c \in {column} |-> values[i]]]
CsvValues == {"", "1", "2"}
\* short CSVs, and CSVs of five rows of the id 1 followed by a sixth row
CsvInputs ==
    {Csv(c, v) : c \in {"ID", "Id"}, v \in SeqsUpTo(CsvValues, MaxCsvRows)}
        \cup {Csv(c, [i \in 1..SampleSize |-> "1"] \o <<v>>) :
                c \in {"ID", "Id"}, v \in CsvValues}

\* dict.get(key): None when the key is missing
Get(row, key) == IF key \in DOMAIN row THEN Some(row[key]) ELSE None
\* the truth value of an Optional[str]
Truthy(v) == v # None /\ v[1] # ""
\* a or b
PyOr(a, b) == IF Truthy(a) THEN a ELSE b

\* a mutant of the row count mismatch message: the difference keeps its sign
RowCountMismatchSigned(csv_count, staging_count) ==
    [issue |-> "Row count mismatch", csv |-> csv_count, staging |-> staging_count,
     difference |-> csv_count - staging_count]

\* ---- the issue messages, each with the values its text carries
RowCountMismatch(csv_count, staging_count) ==
    [issue |-> "Row count mismatch", csv |-> csv_count, staging |-> staging_count,
     difference |-> Abs(csv_count - staging_count)]
DwFewerRows(staging_count, dw_count) ==
    [issue |-> "DW has fewer rows than staging", staging |-> staging_count,
     dw |-> dw_count]
SampleIdsNotFound(missing_ids) ==
    [issue |-> "Sample IDs not found in DW", ids |-> missing_ids]
NullIds(null_id_count, id_column) ==
    [issue |-> "records with NULL id in staging", count |-> null_id_count,
     column |-> id_column]
NotAllStagingInDw(staging_count, dw_count) ==
    [issue |-> "Not all staging records in DW", staging |-> staging_count,
     dw |-> dw_count]
MergeCountMismatch(expected_total, staging_count) ==
    [issue |-> "Merge count mismatch", expected |-> expected_total,
     staging |-> staging_count]
OrphanedRecords(orphan_count, child_table, foreign_key, parent_table, parent_key) ==
    [issue |-> "orphaned records", count |-> orphan_count, child |-> child_table,
     foreign_key |-> foreign_key, parent |-> parent_table,
     parent_key |-> parent_key]
CheckException(e) ==
    [issue |-> "Referential integrity check exception", msg |-> Str(e)]

\* ---- the helpers; failed says that the data-access call raises
\* _get_row_count
GetRowCount(database, table_name, failed) ==
    IF failed THEN 0 ELSE SelectCount(database[table_name])

\* _check_ids_exist
CheckIdsExist(database, table_name, id_column, ids, failed) ==
    IF ids = <<>> THEN <<>>
    ELSE IF failed THEN <<>>
    ELSE LET fetched == SelectIn(database[table_name], id_column, ids)
             found_ids == {ToString(fetched[i]) : i \in 1..Len(fetched)}
         IN SelectSeq(ids, LAMBDA id_val : id_val \notin found_ids)

\* a mutant of _count_null_ids: the count is never taken
CountNullIdsSkipped(database, table_name, id_column, failed) == 0

\* _count_null_ids
CountNullIds(database, table_name, id_column, failed) ==
    IF failed THEN 0 ELSE SelectCountNull(database[table_name], id_column)

\* a mutant of the list comprehension: it runs over every row of the CSV
SampleIdsOfAllRows(csv_rows, id_column) ==
    LET Id(row) == PyOr(Get(row, id_column), Get(row, "Id"))
        with_id == SelectSeq(csv_rows, LAMBDA row : Truthy(Id(row)))
    IN [i \in 1..Len(with_id) |-> Id(with_id[i])[1]]

\* the list comprehension over csv_rows[:5]
SampleIds(csv_rows, id_column) ==
    LET first == SubSeq(csv_rows, 1, Min(SampleSize, Len(csv_rows)))
        Id(row) == PyOr(Get(row, id_column), Get(row, "Id"))
        with_id == SelectSeq(first, LAMBDA row : Truthy(Id(row)))
    IN [i \in 1..Len(with_id) |-> Id(with_id[i])[1]]

\* a mutant of the test for an empty CSV: the early return is never taken
NoCsvRowsNever(csv_count) == FALSE

\* csv_count == 0
NoCsvRows(csv_count) == csv_count = 0

\* validate_table_import on the rows csv.DictReader reads from csv_content;
\* the helpers raise nothing, so its except clause is not entered
TableImportCheck(database, csv_rows, staging_table, dw_table, id_column, faults) ==
    LET csv_count == Len(csv_rows) IN
    IF NoCsvRows(csv_count) THEN [ret |-> <<TRUE, <<>>>>, calls |-> <<>>]
    ELSE
    LET staging_count == GetRowCount(database, staging_table,
                             Faulting(faults, "_get_row_count", staging_table))
        dw_count == GetRowCount(database, dw_table,
                             Faulting(faults, "_get_row_count", dw_table))
        counts == IF csv_count # staging_count
                  THEN <<RowCountMismatch(csv_count, staging_count)>> ELSE <<>>
        merged == IF staging_count > 0 /\ dw_count < staging_count
                  THEN <<DwFewerRows(staging_count, dw_count)>> ELSE <<>>
        sample_ids == SampleIds(csv_rows, id_column)
        missing_ids == CheckIdsExist(database, dw_table, id_column, sample_ids,
                             Faulting(faults, "_check_ids_exist", dw_table))
        sampled == IF sample_ids # <<>> /\ missing_ids # <<>>
                   THEN <<SampleIdsNotFound(missing_ids)>> ELSE <<>>
        null_id_count == CountNullIds(database, staging_table, id_column,
                             Faulting(faults, "_count_null_ids", staging_table))
        nulls == IF null_id_count > 0
                 THEN <<NullIds(null_id_count, id_column)>> ELSE <<>>
        issues == counts \o merged \o sampled \o nulls
    IN [ret |-> <<Len(issues) = 0, issues>>,
        calls |-> <<DataAccess("_get_row_count", staging_table),
                    DataAccess("_get_row_count", dw_table)>>
                  \o (IF sample_ids # <<>>
                      THEN <<[helper |-> "_check_ids_exist", table |-> dw_table,
                              ids |-> sample_ids]>>
                      ELSE <<>>)
                  \o <<DataAccess("_count_null_ids", staging_table)>>]

\* a mutant of the test for expected counts: both have to be given
ExpectedBothSupplied(expected_updates, expected_inserts) ==
    expected_updates # None /\ expected_inserts # None

\* expected_updates is not None or expected_inserts is not None
ExpectedSupplied(expected_updates, expected_inserts) ==
    expected_updates # None \/ expected_inserts # None

\* expected or 0, of an Optional[int]
OrZero(expected) == IF expected = None THEN 0 ELSE expected[1]

\* validate_merge_operation
MergeOperationCheck(database, staging_table, dw_table, expected_updates, expected_inserts, faults) ==
    LET staging_count == GetRowCount(database, staging_table,
                             Faulting(faults, "_get_row_count", staging_table))
        dw_count == GetRowCount(database, dw_table,
                             Faulting(faults, "_get_row_count", dw_table))
        merged == IF staging_count > dw_count
                  THEN <<NotAllStagingInDw(staging_count, dw_count)>> ELSE <<>>
        expected_total == OrZero(expected_updates) + OrZero(expected_inserts)
        expected == IF /\ ExpectedSupplied(expected_updates, expected_inserts)
                       /\ expected_total # staging_count
                    THEN <<MergeCountMismatch(expected_total, staging_count)>>
                    ELSE <<>>
        issues == merged \o expected
    IN [ret |-> <<Len(issues) = 0, issues>>,
        calls |-> <<DataAccess("_get_row_count", staging_table),
                    DataAccess("_get_row_count", dw_table)>>]

\* check_referential_integrity
ReferentialIntegrityCheck(database, child_table, parent_table, foreign_key, parent_key, faults) ==
    LET calls == <<DataAccess("execute", child_table)>> IN
    IF Faulting(faults, "execute", child_table)
    THEN [ret |-> <<FALSE, <<CheckException(DbFault)>>>>, calls |-> calls]
    ELSE
    LET orphan_count == SelectOrphanCount(database[child_table],
                            database[parent_table], foreign_key, parent_key)
        issues == IF orphan_count > 0
                  THEN <<OrphanedRecords(orphan_count, child_table, foreign_key,
                                         parent_table, parent_key)>>
                  ELSE <<>>
    IN [ret |-> <<Len(issues) = 0, issues>>, calls |-> calls]

\* the validator keeps nothing between its calls and writes nothing to the
\* database, so every behaviour makes one call on the database it starts with
Idle == check.op = "__init__"

\* validate_table_import(csv_content, StagingTable, DwTable)
ValidateTableImport(csv_rows, faults) ==
    LET r == TableImportCheck(db, csv_rows, StagingTable, DwTable, "ID", faults) IN
    /\ Idle
    /\ check' = [op |-> "validate_table_import", csv_rows |-> csv_rows,
                 faults |-> faults, calls |-> r.calls, ret |-> r.ret]
    /\ UNCHANGED <<db, tracker_vars, tracker_obs, handler_vars>>

\* validate_merge_operation(StagingTable, DwTable, expected_updates,
\* expected_inserts)
ValidateMergeOperation(expected_updates, expected_inserts, faults) ==
    LET r == MergeOperationCheck(db, StagingTable, DwTable, expected_updates,
                                 expected_inserts, faults) IN
    /\ Idle
    /\ check' = [op |-> "validate_merge_operation",
                 expected_updates |-> expected_updates,
                 expected_inserts |-> expected_inserts,
                 faults |-> faults, calls |-> r.calls, ret |-> r.ret]
    /\ UNCHANGED <<db, tracker_vars, tracker_obs, handler_vars>>

\* check_referential_integrity(ChildTable, ParentTable, ForeignKey)
CheckReferentialIntegrity(faults) ==
    LET r == ReferentialIntegrityCheck(db, ChildTable, ParentTable, ForeignKey,
                                       "ID", faults) IN
    /\ Idle
    /\ check' = [op |-> "check_referential_integrity",
                 faults |-> faults, calls |-> r.calls, ret |-> r.ret]
    /\ UNCHANGED <<db, tracker_vars, tracker_obs, handler_vars>>

InitTracker ==
    /\ current_metrics = None
    /\ molo_summary = SystemImportSummary("MOLO")
    /\ stellar_summary = SystemImportSummary("Stellar")
    /\ started = 0
    /\ discarded = 0
    /\ recorded = 0
    /\ folded = <<>>
    /\ last_op = [op |-> "__init__", sys |-> "", raised |-> ""]
    /\ snapshot = None

InitHandler ==
    /\ error_log = <<>>
    /\ call = [op |-> "__init__"]

\* a validator over a database without rows
InitValidator ==
    /\ db = Database(<<>>, <<>>, <<>>, <<>>)
    /\ check = [op |-> "__init__"]

Init == InitTracker /\ InitHandler /\ InitValidator

\* a validator over any of the databases
InitDatabases ==
    /\ InitTracker
    /\ InitHandler
    /\ db \in Databases
    /\ check = [op |-> "__init__"]

\* the calls that open, fill and close table records
NextTracker ==
    \/ \E s \in SystemNames, i \in Imports : StartTableImport(s, i[1], i[2], i[3])
    \/ \E s \in SystemNames : EndTableImport(s)
    \/ \E r \in StagingResults : LogStagingInsert(r[1], r[2])
    \/ \E r \in MergeResults : LogMergeOperation(r[1], r[2], r[3], r[4])
    \/ \E v \in ValidationResults : LogValidationResult(v[1], v[2])
    \/ \E st \in ReportedStages, e \in ErrorMsgs : AddError(st, e)

SpecTracker == Init /\ [][NextTracker]_vars

\* the runs of the two systems, started and ended in any order, with table
\* records folded into either
NextRuns ==
    \/ \E s \in RunNames : StartSystemImport(s)
    \/ \E s \in RunNames : EndSystemImport(s)
    \/ \E i \in Imports : StartTableImport("MOLO", i[1], i[2], i[3])
    \/ \E s \in RunNames : EndTableImport(s)

SpecRuns == Init /\ [][NextRuns]_vars

\* table imports opened under one system identifier and closed under any:
\* BOATS is always opened as a MOLO table, SLIPS under a name of no system
NextNamed ==
    \/ StartTableImport("MOLO", "BOATS", "boats.csv", 2)
    \/ StartTableImport("other", "SLIPS", "slips.csv", 0)
    \/ \E s \in SystemNames : EndTableImport(s)
    \/ \E r \in StagingResults : LogStagingInsert(r[1], r[2])

SpecNamed == Init /\ [][NextNamed]_vars

\* table records that receive several results of the same kind, the counts
\* of each call different from those of the calls before it
NextRecord ==
    \/ \E i \in Imports : StartTableImport("MOLO", i[1], i[2], i[3])
    \/ EndTableImport("MOLO")
    \/ LogStagingInsert(StagingAt(recorded)[1], StagingAt(recorded)[2])
    \/ LogMergeOperation(MergeAt(recorded)[1], MergeAt(recorded)[2],
                         MergeAt(recorded)[3], MergeAt(recorded)[4])
    \/ \E v \in RecordValidations : LogValidationResult(v[1], v[2])
    \/ \E st \in ReportedStages, e \in ErrorMsgs : AddError(st, e)

SpecRecord == Init /\ [][NextRecord]_vars

\* the calls on the way to a summary of the MOLO run, and its export
NextExport ==
    \/ \E i \in Imports : StartTableImport("MOLO", i[1], i[2], i[3])
    \/ EndTableImport("MOLO")
    \/ \E r \in StagingResults : LogStagingInsert(r[1], r[2])
    \/ \E st \in ReportedStages, e \in ErrorMsgs : AddError(st, e)
    \/ \E s \in {"MOLO"} : StartSystemImport(s)
    \/ \E s \in {"MOLO"} : EndSystemImport(s)
    \/ ExportSummaryToDict

SpecExport == Init /\ [][NextExport]_vars

\* the calls that fill the tables and the totals of the MOLO summary, and
\* its export
NextTotals ==
    \/ \E i \in Imports : StartTableImport("MOLO", i[1], i[2], i[3])
    \/ EndTableImport("MOLO")
    \/ \E r \in StagingResults : LogStagingInsert(r[1], r[2])
    \/ \E r \in MergeResults : LogMergeOperation(r[1], r[2], r[3], r[4])
    \/ \E v \in ValidationResults : LogValidationResult(v[1], v[2])
    \/ \E st \in ReportedStages, e \in ErrorMsgs : AddError(st, e)
    \/ ExportSummaryToDict

SpecTotals == Init /\ [][NextTotals]_vars

\* the outcomes of execute and commit; commit is called only after an
\* execute that completed, so elsewhere its outcome is left at Ok
MergeOutcomes ==
    {<<x, c>> \in ({Ok} \cup MergeFaults) \X ({Ok} \cup MergeFaults) :
        x # Ok => c = Ok}

\* the calls of the inserter and of the merge executor
NextHandler ==
    \/ \E t \in StagingTables, n \in 0..MaxBatch :
         \E o \in InsertOutcomes(n) : HandleStagingInsert(t, Batch(n), o)
    \/ \E p \in Procedures, t \in MergeTables, o \in MergeOutcomes,
          n \in RowCounts : HandleMergeOperation(p, t, o[1], n, o[2])

SpecHandler == Init /\ [][NextHandler]_vars

ValidationFuncs == {"validate_table_import"}
LoggedTypes == {"staging_insert", "validation"}

\* the calls that write, read and clear the error log
NextErrorLog ==
    \/ \E t \in StagingTables, n \in 0..MaxBatch :
         \E o \in InsertOutcomes(n) : HandleStagingInsert(t, Batch(n), o)
    \/ \E p \in Procedures, t \in MergeTables, o \in MergeOutcomes,
          n \in RowCounts : HandleMergeOperation(p, t, o[1], n, o[2])
    \/ \E f \in ValidationFuncs, o \in ValidationOutcomes : HandleValidation(f, o)
    \/ \E k \in LoggedTypes, c \in StagingTables, m \in ErrorMsgs :
         LogErrorCall(k, c, m)
    \/ GetErrorSummary
    \/ ClearErrors

SpecErrorLog == Init /\ [][NextErrorLog]_vars

\* the outcomes of a bulk attempt that raises a DatabaseError and of the
\* attempts on the n rows that follow it
FallbackOutcomes(n) ==
    {<<[cls |-> "DatabaseError", msg |-> "ORA-00001"]>> \o o :
        o \in [1..n -> {Ok, [cls |-> "DatabaseError", msg |-> "ORA-01400"]}]}

\* one staging insertion that falls back to its rows, of a batch long enough
\* for more failures than are recorded, on a log that may hold entries
NextFallback ==
    \/ \E t \in StagingTables, n \in 0..MaxFallbackBatch :
         \E o \in FallbackOutcomes(n) : HandleStagingInsertOnce(t, Batch(n), o)
    \/ \E c \in StagingTables, m \in ErrorMsgs : LogErrorCall("validation", c, m)

SpecFallback == Init /\ [][NextFallback]_vars

\* the data-access calls that fail during a check: at most one of the four
\* calls of validate_table_import, any of the two of validate_merge_operation
ImportFaults ==
    {{}} \cup {{a} : a \in {DataAccess("_get_row_count", StagingTable),
                             DataAccess("_get_row_count", DwTable),
                             DataAccess("_check_ids_exist", DwTable),
                             DataAccess("_count_null_ids", StagingTable)}}
CountFaults ==
    SUBSET {DataAccess("_get_row_count", StagingTable),
            DataAccess("_get_row_count", DwTable)}
QueryFaults == SUBSET {DataAccess("execute", ChildTable)}
ExpectedCounts == {None} \cup {Some(n) : n \in 0..MaxTableRows}

\* the checks of the validator
NextValidator ==
    \/ \E c \in CsvInputs, f \in ImportFaults : ValidateTableImport(c, f)
    \/ \E u \in ExpectedCounts, i \in ExpectedCounts, f \in CountFaults :
         ValidateMergeOperation(u, i, f)
    \/ \E f \in QueryFaults : CheckReferentialIntegrity(f)

SpecValidator == InitDatabases /\ [][NextValidator]_vars

(***************************************************************************)
(* Properties of the tracker.                                              *)
(***************************************************************************)
Selectors == {"molo_summary", "stellar_summary"}
DerefNext(sel) == IF sel = "molo_summary" THEN molo_summary' ELSE stellar_summary'

\* every record the tracker state holds: the open one and the folded ones
AllRecords ==
    {current_metrics[i] : i \in 1..Len(current_metrics)}
    \cup {folded[i].m : i \in 1..Len(folded)}
    \cup {molo_summary.tables[t] : t \in DOMAIN molo_summary.tables}
    \cup {stellar_summary.tables[t] : t \in DOMAIN stellar_summary.tables}

\* the sum of a numeric field over the records folded into a summary
FoldedSum(sel, fld) ==
    SumSeq([i \in 1..Len(folded) |->
              IF folded[i].sys = sel THEN folded[i].m[fld] ELSE 0])

\* the number of stage error messages of a record
StageErrorMessages(m) ==
    SumOver([st \in ImportStage |->
                IF st \in DOMAIN m.stage_errors THEN Len(m.stage_errors[st])
                ELSE 0],
            ImportStage)

\* C1: each run-level total of a summary is the sum of the corresponding
\* field over every record add_table ever folded into it, each fold counted
\* once (overwritten entries included); total_errors sums the stage error
\* list lengths and total_warnings the validation issue list lengths.
TotalsMatchFolds ==
    \A sel \in Selectors :
        LET sm == Deref(sel) IN
        /\ sm.total_csv_rows = FoldedSum(sel, "csv_row_count")
        /\ sm.total_staging_inserted = FoldedSum(sel, "staging_inserted")
        /\ sm.total_merge_inserts = FoldedSum(sel, "merge_inserted")
        /\ sm.total_merge_updates = FoldedSum(sel, "merge_updated")
        /\ sm.total_errors =
             SumSeq([i \in 1..Len(folded) |->
                       IF folded[i].sys = sel
                       THEN StageErrorMessages(folded[i].m) ELSE 0])
        /\ sm.total_warnings =
             SumSeq([i \in 1..Len(folded) |->
                       IF folded[i].sys = sel
                       THEN Len(folded[i].m.validation_issues) ELSE 0])

\* two records with the same table identifier were folded into one summary,
\* the first of them with rows, an issue or an error to its name
OverwrittenFoldWitness ==
    /\ Len(folded) = 2
    /\ folded[1].sys = folded[2].sys
    /\ folded[1].m.table_name = folded[2].m.table_name
    /\ folded[1].m.csv_row_count > 0
    /\ \/ folded[1].m.staging_inserted > 0
       \/ folded[1].m.merge_inserted > 0
       \/ folded[1].m.validation_issues # <<>>
       \/ StageErrorMessages(folded[1].m) > 0
    /\ recorded = 2

\* C2: the derived status of every record follows the precedence rule,
\* first match wins: ERROR if a stage has a non-empty error list, else
\* WARNING if there is a validation issue, else SKIPPED if nothing was
\* staged, else SUCCESS.
StatusPrecedence ==
    \A m \in AllRecords :
        LET anyError == \E st \in ImportStage :
                            st \in DOMAIN m.stage_errors
                            /\ Len(m.stage_errors[st]) > 0
            anyIssue == Len(m.validation_issues) > 0
            noneStaged == m.staging_inserted = 0
        IN /\ anyError => GetStatus(m) = "ERROR"
           /\ (~anyError /\ anyIssue) => GetStatus(m) = "WARNING"
           /\ (~anyError /\ ~anyIssue /\ noneStaged) => GetStatus(m) = "SKIPPED"
           /\ (~anyError /\ ~anyIssue /\ ~noneStaged) => GetStatus(m) = "SUCCESS"

\* a record that matches the first three rules at once: it has a stage
\* error, a validation issue and nothing staged
StatusPrecedenceWitness ==
    \E m \in AllRecords :
        /\ \E st \in DOMAIN m.stage_errors : m.stage_errors[st] # <<>>
        /\ m.validation_issues # <<>>
        /\ m.staging_inserted = 0
        /\ GetStatus(m) = "ERROR"

RecordOps == {"log_staging_insert", "log_merge_operation",
              "log_validation_result", "add_error"}

\* C3: with no record open, log_staging_insert, log_merge_operation,
\* log_validation_result and add_error raise nothing and change nothing of
\* the tracker: the slot stays empty and both summaries are unchanged.
RecordWithoutOpenIsNoOp ==
    [][(current_metrics = None /\ last_op'.op \in RecordOps)
          => /\ last_op'.raised = ""
             /\ current_metrics' = None
             /\ molo_summary' = molo_summary
             /\ stellar_summary' = stellar_summary]_vars

\* two recording calls were made with no record open, before any
\* start_table_import or after an end_table_import
RecordWithoutOpenWitness ==
    /\ current_metrics = None
    /\ last_op.op \in RecordOps
    /\ recorded = 2
    /\ started = 0 \/ Len(folded) = 1

\* C4: end_table_import naming a system, with a record open, sets the
\* record's end time, stores it in that system's tables under its table
\* name (replacing an entry of that name, other entries untouched) and
\* leaves the slot empty.
EndTableFolds ==
    [][(last_op'.op = "end_table_import" /\ current_metrics # None
          /\ GetSummary(last_op'.sys) \in Selectors)
          => LET sel == GetSummary(last_op'.sys)
                 m == current_metrics[1]
                 before == Deref(sel).tables
                 after == DerefNext(sel).tables
             IN /\ last_op'.raised = ""
                /\ current_metrics' = None
                /\ DOMAIN after = DOMAIN before \cup {m.table_name}
                /\ after[m.table_name].end_time \in Times
                /\ after[m.table_name] =
                      [m EXCEPT !.end_time = after[m.table_name].end_time]
                /\ \A t \in DOMAIN before \ {m.table_name} : after[t] = before[t]]_vars

\* an end_table_import has replaced the entry an earlier one stored
EndTableFoldsWitness ==
    /\ last_op.op = "end_table_import"
    /\ last_op.raised = ""
    /\ current_metrics = None
    /\ Len(folded) = 2
    /\ folded[1].sys = folded[2].sys
    /\ folded[1].m.table_name = folded[2].m.table_name
    /\ folded[1].m # folded[2].m
    /\ Deref(folded[2].sys).tables[folded[2].m.table_name] = folded[2].m

\* C5: at most one record is open; start_table_import with a record open
\* raises nothing and replaces it with a fresh record, and the record it
\* drops is never folded: every record started is open, dropped or folded,
\* and the summaries hold folded records only.
OpenRecordReplaced ==
    /\ [](/\ Len(current_metrics) <= 1
          /\ started = Len(folded) + discarded + Len(current_metrics)
          /\ \A sel \in Selectors : \A t \in DOMAIN Deref(sel).tables :
                \E i \in 1..Len(folded) :
                    folded[i] = [sys |-> sel, m |-> Deref(sel).tables[t]])
    /\ [][last_op'.op = "start_table_import"
            => /\ last_op'.raised = ""
               /\ Len(current_metrics') = 1
               /\ \E i \in Imports, t \in Times :
                     current_metrics'[1] = TableImportMetrics(i[1], i[2], i[3], t)
               /\ discarded' = discarded + Len(current_metrics)
               /\ molo_summary' = molo_summary
               /\ stellar_summary' = stellar_summary
               /\ folded' = folded]_vars

\* a record that had received results was dropped by start_table_import
OpenRecordReplacedWitness ==
    /\ last_op.op = "start_table_import"
    /\ discarded = 1
    /\ recorded > 0
    /\ started = 2
    /\ folded = <<>>

(***************************************************************************)
(* Properties of the inserter and of the merge executor.                   *)
(***************************************************************************)
Range(seq) == {seq[i] : i \in 1..Len(seq)}
StagingCall(c) == c.op = "handle_staging_insert"
MergeCall(c) == c.op = "handle_merge_operation"

\* C6: for a non-empty batch of N rows whose bulk attempt succeeds, the
\* inserter returns (N, 0) and invokes the insert operation exactly once,
\* with the full batch, so no row is invoked on its own.
BulkSuccessReturnsAll ==
    (StagingCall(call) /\ call.data_rows # <<>> /\ call.outcome[1].cls = "ok")
        => /\ call.ret.kind = "return"
           /\ call.ret.value = <<Len(call.data_rows), 0>>
           /\ Len(call.invoked) = 1
           /\ call.invoked[1].args = call.data_rows

\* a bulk insert of two rows succeeded, with entries already in the error log
BulkSuccessWitness ==
    /\ StagingCall(call)
    /\ Len(call.data_rows) = 2
    /\ call.outcome[1] = Ok
    /\ call.ret = Return(<<2, 0>>)
    /\ error_log # <<>>

\* C7: for a batch of N rows whose bulk attempt raises a DatabaseError, every
\* row is then invoked exactly once, on its own and in batch order, whatever
\* the earlier rows did, and the inserter returns (successes, errors) with
\* successes + errors = N and successes the number of row invocations that
\* did not raise.
FallbackAttemptsEveryRow ==
    (StagingCall(call) /\ call.data_rows # <<>>
        /\ call.outcome[1].cls = "DatabaseError")
        => LET n == Len(call.data_rows) IN
           /\ call.ret.kind = "return"
           /\ Len(call.invoked) = n + 1
           /\ call.invoked[1].args = call.data_rows
           /\ \A i \in 1..n : call.invoked[i + 1].args = <<call.data_rows[i]>>
           /\ call.ret.value[1] + call.ret.value[2] = n
           /\ call.ret.value[1] =
                 Cardinality({i \in 1..n : call.outcome[i + 1].cls = "ok"})

\* the bulk attempt raised a DatabaseError, the first row failed and the
\* second was inserted
FallbackWitness ==
    /\ StagingCall(call)
    /\ Len(call.data_rows) = 2
    /\ call.outcome[1].cls = "DatabaseError"
    /\ call.outcome[2] # Ok
    /\ call.outcome[3] = Ok
    /\ call.ret = Return(<<1, 1>>)
    /\ Len(call.invoked) = 3

\* C8: on an empty batch the inserter returns (0, 0), never invokes the
\* insert operation and appends nothing to the error log.
EmptyBatchDoesNothing ==
    [][(StagingCall(call') /\ call'.data_rows = <<>>)
          => /\ call'.ret.kind = "return"
             /\ call'.ret.value = <<0, 0>>
             /\ call'.invoked = <<>>
             /\ error_log' = error_log]_vars

\* an empty batch was handed in with entries already in the error log
EmptyBatchWitness ==
    /\ StagingCall(call)
    /\ call.data_rows = <<>>
    /\ call.ret = Return(<<0, 0>>)
    /\ Len(error_log) = 1

\* C9: if the bulk attempt raises an exception that is no DatabaseError, the
\* insert operation is invoked exactly once (no row on its own), exactly one
\* entry is appended to the error log and StagingInsertError is raised.
UnexpectedBulkFaultIsFatal ==
    [][(StagingCall(call') /\ call'.data_rows # <<>>
          /\ call'.outcome[1].cls \notin {"ok", "DatabaseError"})
          => /\ Len(call'.invoked) = 1
             /\ call'.invoked[1].args = call'.data_rows
             /\ Len(error_log') = Len(error_log) + 1
             /\ SubSeq(error_log', 1, Len(error_log)) = error_log
             /\ error_log'[Len(error_log')].type = "staging_insert"
             /\ call'.ret.kind = "raise"
             /\ call'.ret.exc = "StagingInsertError"]_vars

\* a bulk attempt on two rows raised a TypeError, with an entry already in
\* the error log
UnexpectedBulkFaultWitness ==
    /\ StagingCall(call)
    /\ Len(call.data_rows) = 2
    /\ call.outcome[1].cls = "TypeError"
    /\ call.ret.kind = "raise"
    /\ Len(error_log) = 2

CompletedMergeIsCommitted ==
    [][(MergeCall(call') /\ call'.executed = Ok /\ call'.committed = Ok)
          => /\ call'.events = <<"execute", "commit">>
             /\ error_log' = error_log
             /\ call'.ret.kind = "return"
             /\ call'.ret.value =
                   [matched |-> call'.row_count, inserted |-> 0, updated |-> 0,
                    errors |-> 0, success |-> TRUE]]_vars

\* a merge of three rows completed and was committed, with an entry of an
\* earlier failure in the error log
CompletedMergeWitness ==
    /\ MergeCall(call)
    /\ call.executed = Ok
    /\ call.committed = Ok
    /\ call.row_count = 3
    /\ call.ret.kind = "return"
    /\ call.ret.value.matched = 3
    /\ Len(error_log) = 1

TableImportCall(c) == c.op = "validate_table_import"
MergeCheckCall(c) == c.op = "validate_merge_operation"
ReferentialCall(c) == c.op = "check_referential_integrity"
\* the positions of the issues of one kind in a list of issues
IssuesOf(issues, kind) == {i \in 1..Len(issues) : issues[i].issue = kind}
\* the data-access calls a check made, as (helper, table)
Made(c) == {DataAccess(c.calls[i].helper, c.calls[i].table) : i \in 1..Len(c.calls)}

\* C13: validate_table_import on a source of zero rows returns (True, [])
\* and makes no data-access call.
EmptySourceIsValid ==
    (TableImportCall(check) /\ Len(check.csv_rows) = 0)
        => /\ check.ret = <<TRUE, <<>>>>
           /\ check.calls = <<>>

\* an empty source was validated against a staging table of one row with a
\* NULL id, over data access that fails
EmptySourceWitness ==
    /\ TableImportCall(check)
    /\ check.csv_rows = <<>>
    /\ check.ret = <<TRUE, <<>>>>
    /\ db[StagingTable] = <<[ID |-> None]>>
    /\ check.faults # {}

\* C14: validate_table_import on a non-empty source, the staging row count
\* having been read, emits a row count mismatch issue exactly when the source
\* row count differs from the staging row count; the issue reports the
\* absolute difference of the two, and the result is then not passed.
RowCountMismatchReported ==
    (/\ TableImportCall(check)
     /\ Len(check.csv_rows) > 0
     /\ DataAccess("_get_row_count", StagingTable) \notin check.faults)
        => LET source == Len(check.csv_rows)
               staging == Len(db[StagingTable])
               mismatches == IssuesOf(check.ret[2], "Row count mismatch")
           IN /\ (source # staging) <=> (mismatches # {})
              /\ Cardinality(mismatches) <= 1
              /\ \A i \in mismatches :
                    /\ check.ret[1] = FALSE
                    /\ check.ret[2][i].difference >= 0
                    /\ \/ source = staging + check.ret[2][i].difference
                       \/ staging = source + check.ret[2][i].difference

\* a source of one row was validated against a staging table of two rows
RowCountMismatchWitness ==
    /\ TableImportCall(check)
    /\ Len(check.csv_rows) = 1
    /\ Len(db[StagingTable]) = 2
    /\ check.faults = {}
    /\ check.ret[1] = FALSE
    /\ \E i \in 1..Len(check.ret[2]) :
          /\ check.ret[2][i].issue = "Row count mismatch"
          /\ check.ret[2][i].difference = 1

\* the identifier of a source row: its ID, or else its Id, when not empty
Identified(row) ==
    {row[k] : k \in {k \in DOMAIN row \cap {"ID"} : row[k] # ""}}
        \cup {row[k] : k \in {k \in DOMAIN row \cap {"Id"} :
                               row[k] # "" /\ ("ID" \notin DOMAIN row \/ row["ID"] = "")}}
\* the identifiers of the first five source rows
Sampled(csv_rows) ==
    UNION {Identified(csv_rows[i]) : i \in {i \in 1..Len(csv_rows) : i <= 5}}
\* the identifiers of the rows of a table, as strings
IdsIn(table) ==
    {ToString(table[j].ID[1]) : j \in {j \in 1..Len(table) : table[j].ID # None}}

\* C15: validate_table_import on a non-empty source reports passed exactly
\* when its issue list is empty; and, the data-access calls having completed,
\* the issue list is empty exactly when the source count equals the staging
\* count, the warehouse count is at least the staging count, every sampled
\* identifier is in the warehouse table and no staging row has a NULL id.
PassedIffChecksHold ==
    (TableImportCall(check) /\ Len(check.csv_rows) > 0)
        => /\ check.ret[1] <=> (check.ret[2] = <<>>)
           /\ check.faults = {}
                => ((check.ret[2] = <<>>)
                      <=> /\ Len(check.csv_rows) = Len(db[StagingTable])
                          /\ Len(db[DwTable]) >= Len(db[StagingTable])
                          /\ Sampled(check.csv_rows) \subseteq IdsIn(db[DwTable])
                          /\ \A j \in 1..Len(db[StagingTable]) :
                                db[StagingTable][j].ID # None)

\* a source of six rows passed: the tables have six rows with ids, the ids of
\* the first five rows are in the warehouse table and the id of the sixth is
\* not
PassedWitness ==
    /\ TableImportCall(check)
    /\ Len(check.csv_rows) = 6
    /\ check.faults = {}
    /\ Identified(check.csv_rows[6]) = {"2"}
    /\ "2" \notin IdsIn(db[DwTable])
    /\ check.ret = <<TRUE, <<>>>>

\* C16: in validate_table_import, validate_merge_operation and
\* check_referential_integrity, an exception raised by a data-access call the
\* check makes is not propagated and is converted into an issue message: the
\* check returns (False, issues) with an issue that carries the exception.
FaultBecomesIssue ==
    (/\ TableImportCall(check) \/ MergeCheckCall(check) \/ ReferentialCall(check)
     /\ check.faults \cap Made(check) # {})
        => /\ check.ret[1] = FALSE
           /\ \E i \in 1..Len(check.ret[2]) :
                 /\ "msg" \in DOMAIN check.ret[2][i]
                 /\ check.ret[2][i].msg = Str(DbFault)

\* C17: validate_merge_operation, the two counts having been read, emits an
\* issue exactly when the staging count exceeds the warehouse count; a second
\* issue exactly when at least one of expected_updates and expected_inserts
\* is given and their sum, a missing one counting as 0, differs from the
\* staging count; and reports passed exactly when it emitted no issue.
MergeCheckIssues ==
    (MergeCheckCall(check) /\ check.faults = {})
        => LET staging == Len(db[StagingTable])
               dw == Len(db[DwTable])
               updates == check.expected_updates
               inserts == check.expected_inserts
               total == (IF updates = None THEN 0 ELSE updates[1])
                          + (IF inserts = None THEN 0 ELSE inserts[1])
               exceeding == IssuesOf(check.ret[2], "Not all staging records in DW")
               unexpected == IssuesOf(check.ret[2], "Merge count mismatch")
           IN /\ (exceeding # {}) <=> (staging > dw)
              /\ (unexpected # {})
                    <=> (~(updates = None /\ inserts = None) /\ total # staging)
              /\ Cardinality(exceeding) <= 1
              /\ Cardinality(unexpected) <= 1
              /\ exceeding \cup unexpected = 1..Len(check.ret[2])
              /\ check.ret[1] <=> (check.ret[2] = <<>>)

\* two staging rows were checked against a warehouse table of one row with
\* one update expected and the inserts not given: both issues were emitted
MergeCheckWitness ==
    /\ MergeCheckCall(check)
    /\ check.faults = {}
    /\ Len(db[StagingTable]) = 2
    /\ Len(db[DwTable]) = 1
    /\ check.expected_updates = Some(1)
    /\ check.expected_inserts = None
    /\ check.ret[1] = FALSE
    /\ Len(check.ret[2]) = 2

\* the child rows whose foreign key is not NULL and is the key of no parent row
Orphans(child, parent) ==
    {i \in 1..Len(child) :
        /\ child[i][ForeignKey] # None
        /\ \A j \in 1..Len(parent) : parent[j].ID # child[i][ForeignKey]}

\* C18: check_referential_integrity, its query having completed, takes as
\* orphans the child rows whose foreign key is not NULL and equals the key of
\* no parent row: it returns (True, []) when there is none, and otherwise
\* (False, [one issue]) where the issue carries their number.
OrphansCounted ==
    (ReferentialCall(check) /\ check.faults = {})
        => LET orphans == Cardinality(Orphans(db[ChildTable], db[ParentTable]))
           IN IF orphans = 0
              THEN check.ret = <<TRUE, <<>>>>
              ELSE /\ check.ret[1] = FALSE
                   /\ Len(check.ret[2]) = 1
                   /\ check.ret[2][1].issue = "orphaned records"
                   /\ check.ret[2][1].count = orphans

\* of two child rows one has a NULL foreign key and the other the key of no
\* parent row: one orphan was reported
OrphansWitness ==
    /\ ReferentialCall(check)
    /\ check.faults = {}
    /\ Len(db[ChildTable]) = 2
    /\ db[ChildTable][1][ForeignKey] = None
    /\ db[ChildTable][2][ForeignKey] = Some(2)
    /\ db[ParentTable] = <<[ID |-> Some(1)]>>
    /\ check.ret[1] = FALSE
    /\ check.ret[2][1].count = 1

\* the two per-system dicts of the exported dict, if there is one
Exported == UNION {{snapshot[i].molo, snapshot[i].stellar} : i \in 1..Len(snapshot)}

\* C19: the success rate of a run summary is 100 times the number of entries
\* of its tables mapping whose derived status is Success, divided by the
\* number of entries, and 0 when the mapping is empty; it lies between 0 and
\* 100.
SuccessRateOfTables ==
    \A d \in Exported :
        LET entries == DOMAIN d.tables
            successes == {n \in entries : d.tables[n].status = "Success"}
            rate == d.success_rate
        IN /\ rate.den > 0
           /\ entries = {} => rate.num = 0
           /\ entries # {}
                => rate.num * Cardinality(entries)
                     = 100 * Cardinality(successes) * rate.den
           /\ 0 <= rate.num
           /\ rate.num <= 100 * rate.den

\* the MOLO summary was exported with two tables, one of them a Success and
\* the other Skipped: its success rate is 50
SuccessRateWitness ==
    \E d \in Exported :
        /\ d.tables_processed = 2
        /\ \E n \in DOMAIN d.tables : d.tables[n].status = "Success"
        /\ \E n \in DOMAIN d.tables : d.tables[n].status = "Skipped"
        /\ d.success_rate.num = 50 * d.success_rate.den

\* the tables mapping that the holder of an exported per-system dict reads:
\* the dict's own, or the summary's when the dict refers to that
TablesRead(d) ==
    IF DOMAIN d.tables = {"ref"}
    THEN IF d.tables.ref = "MOLO" THEN molo_summary.tables
         ELSE stellar_summary.tables
    ELSE d.tables
\* the exported dict as its holder reads it
Seen ==
    [i \in 1..Len(snapshot) |->
       [molo    |-> [snapshot[i].molo EXCEPT !.tables = TablesRead(snapshot[i].molo)],
        stellar |-> [snapshot[i].stellar EXCEPT
                       !.tables = TablesRead(snapshot[i].stellar)],
        timestamp |-> snapshot[i].timestamp]]

\* C20: export_summary_to_dict changes nothing of the tracker (the
\* summaries with their totals and timestamps, the open record), the dict it
\* returns shows the summaries as they are at the call, and no later call of
\* the tracker changes what that dict shows.
ExportIsPointInTime ==
    [][/\ last_op'.op = "export_summary_to_dict"
          => /\ UNCHANGED tracker_vars
             /\ \A d \in {<<Seen'[1].molo, molo_summary>>,
                           <<Seen'[1].stellar, stellar_summary>>} :
                   /\ DOMAIN d[1].tables = DOMAIN d[2].tables
                   /\ d[1].total_csv_rows = d[2].total_csv_rows
                   /\ d[1].total_staging_inserted = d[2].total_staging_inserted
                   /\ d[1].total_errors = d[2].total_errors
                   /\ \A n \in DOMAIN d[2].tables :
                         d[1].tables[n].staging_inserted
                           = d[2].tables[n].staging_inserted
       /\ (snapshot # None /\ last_op'.op # "export_summary_to_dict")
          => Seen' = Seen]_vars

\* the summaries were exported with one table; a second table with staged
\* rows was folded afterwards and the exported dict still shows one
ExportWitness ==
    /\ snapshot # None
    /\ last_op.op = "end_table_import"
    /\ Seen[1].molo.tables_processed = 1
    /\ Cardinality(DOMAIN Seen[1].molo.tables) = 1
    /\ Cardinality(DOMAIN molo_summary.tables) = 2
    /\ molo_summary.total_staging_inserted > Seen[1].molo.total_staging_inserted

\* the sum of a field over the entries of the tables mapping of an exported
\* per-system dict
TablesSum(d, fld) ==
    SumOver([n \in DOMAIN d.tables |-> d.tables[n][fld]], DOMAIN d.tables)
\* the totals of an exported per-system dict are the sums over its tables
TotalsAreTablesSums(d) ==
    /\ d.total_csv_rows = TablesSum(d, "csv_rows")
    /\ d.total_staging_inserted = TablesSum(d, "staging_inserted")
    /\ d.total_merge_inserts = TablesSum(d, "merge_inserted")
    /\ d.total_merge_updates = TablesSum(d, "merge_updated")
    /\ d.total_errors = TablesSum(d, "errors")
    /\ d.total_warnings = TablesSum(d, "warnings")
\* no two records folded into the summary sel carry the same table name
NoRefold(sel) ==
    \A i, j \in 1..Len(folded) :
        (/\ i # j
         /\ folded[i].sys = sel
         /\ folded[j].sys = sel) => folded[i].m.table_name # folded[j].m.table_name

\* C21 as stated: in every exported dict, after any calls of the tracker,
\* each run's totals equal the sums of the corresponding fields over the
\* entries of the dict's tables mapping.
ExportedTotalsMatchTables ==
    \A d \in Exported : TotalsAreTablesSums(d)

\* C21 as amended: in every exported dict the totals of a run equal the sums
\* of the corresponding fields over the entries of its tables mapping as long
\* as no two table imports of the same table name were ended in that run.
ExportedTotalsMatchDistinctTables ==
    \A i \in 1..Len(snapshot) :
        /\ NoRefold("molo_summary") => TotalsAreTablesSums(snapshot[i].molo)
        /\ NoRefold("stellar_summary") => TotalsAreTablesSums(snapshot[i].stellar)

\* the MOLO summary was exported with two tables, one of them with staged
\* rows and one with a validation issue
DistinctTablesWitness ==
    /\ snapshot # None
    /\ NoRefold("molo_summary")
    /\ snapshot[1].molo.tables_processed = 2
    /\ snapshot[1].molo.total_staging_inserted > 0
    /\ snapshot[1].molo.total_warnings > 0
    /\ snapshot[1].molo.total_csv_rows > 0

\* C22: the error log is append-only. Every call other than clear_errors
\* keeps the entries it finds, in their order, and never shortens the log;
\* _log_error adds exactly one entry, at the end; get_error_summary reports
\* a total equal to the length of the log and counts by type that sum to it,
\* and leaves the log as it is; clear_errors leaves the log empty.
ErrorLogAppendOnly ==
    [][/\ call'.op # "clear_errors"
          => /\ Len(error_log') >= Len(error_log)
             /\ SubSeq(error_log', 1, Len(error_log)) = error_log
       /\ call'.op = "_log_error"
          => /\ Len(error_log') = Len(error_log) + 1
             /\ error_log'[Len(error_log')].type = call'.type
             /\ error_log'[Len(error_log')].message = call'.message
       /\ call'.op = "get_error_summary"
          => LET summary == call'.ret.value IN
             /\ error_log' = error_log
             /\ summary.total_errors = Len(error_log)
             /\ SumOver(summary.by_type, DOMAIN summary.by_type)
                  = summary.total_errors
             /\ \A t \in DOMAIN summary.by_type :
                   summary.by_type[t]
                     = Cardinality({i \in 1..Len(error_log) : error_log[i].type = t})
       /\ call'.op = "clear_errors" => error_log' = <<>>]_vars

\* the summary of a log of two entries of different types was taken
ErrorSummaryWitness ==
    /\ call.op = "get_error_summary"
    /\ Len(error_log) = 2
    /\ error_log[1].type # error_log[2].type
    /\ call.ret.value.total_errors = 2
    /\ Cardinality(DOMAIN call.ret.value.by_type) = 2

\* C23: handle_validation raises nothing. When the validation function
\* returns, its (passed, issues) is returned as it is and the error log is
\* left alone; when it raises, handle_validation returns (False, [one
\* message]) and appends exactly one entry of type validation to the log.
HandledValidationNeverRaises ==
    [][call'.op = "handle_validation"
         => /\ call'.ret.kind = "return"
            /\ call'.outcome.kind = "return"
                 => /\ call'.ret.value = call'.outcome.value
                    /\ error_log' = error_log
            /\ call'.outcome.kind = "raise"
                 => /\ call'.ret.value[1] = FALSE
                    /\ Len(call'.ret.value[2]) = 1
                    /\ Len(error_log') = Len(error_log) + 1
                    /\ SubSeq(error_log', 1, Len(error_log)) = error_log
                    /\ error_log'[Len(error_log')].type = "validation"]_vars

\* a validation function raised a KeyError, with an entry already in the log
HandledValidationWitness ==
    /\ call.op = "handle_validation"
    /\ call.outcome.kind = "raise"
    /\ call.outcome.exc = "KeyError"
    /\ call.ret.kind = "return"
    /\ call.ret.value[1] = FALSE
    /\ Len(error_log) = 2
    /\ error_log[2].type = "validation"

\* the 0-based indices of the rows whose own attempt failed
FailingRows(c) == {i \in 0..(Len(c.data_rows) - 1) : c.outcome[i + 2] # Ok}
\* the j-th of them in batch order
FailingRow(c, j) ==
    CHOOSE i \in FailingRows(c) : Cardinality({x \in FailingRows(c) : x < i}) = j - 1

\* C24: a row-by-row fallback in which k rows fail appends exactly min(k, 5)
\* entries to the error log, which describe the first five failing rows in
\* batch order, and returns k as the error count.
FallbackRecordsFirstFive ==
    [][(/\ StagingCall(call')
        /\ call'.data_rows # <<>>
        /\ call'.outcome[1].cls = "DatabaseError")
          => LET k == Cardinality(FailingRows(call'))
                 recorded_rows == IF k < 5 THEN k ELSE 5
             IN /\ Len(error_log') = Len(error_log) + recorded_rows
                /\ SubSeq(error_log', 1, Len(error_log)) = error_log
                /\ \A j \in 1..recorded_rows :
                      LET entry == error_log'[Len(error_log) + j] IN
                      /\ entry.type = "staging_insert"
                      /\ entry.metadata.row_index = FailingRow(call', j)
                      /\ entry.message = call'.outcome[FailingRow(call', j) + 2].msg
                /\ call'.ret.kind = "return"
                /\ call'.ret.value[2] = k]_vars

\* six rows failed in the fallback, the first of them succeeded or not: five
\* entries were added to a log that held one
FallbackWitnessSix ==
    /\ StagingCall(call)
    /\ call.outcome[1].cls = "DatabaseError"
    /\ Cardinality(FailingRows(call)) = 6
    /\ call.ret = Return(<<0, 6>>)
    /\ Len(error_log) = 6
    /\ error_log[1].type = "validation"

\* the attempts of a staging insertion, the bulk one or one on a single row,
\* in which the insert operation raised an exception that is no DatabaseError
UnexpectedAttempts(c) ==
    {i \in 1..Len(c.invoked) : c.invoked[i].outcome.cls \notin {"ok", "DatabaseError"}}

\* C25: whenever the insert operation raises an exception that is no
\* DatabaseError, on the bulk attempt or on the attempt of a single row during
\* the fallback, handle_staging_insert raises StagingInsertError caused by that
\* exception: it does not return counts in which the failure is a row error.
UnexpectedInsertFaultIsFatal ==
    [][(StagingCall(call') /\ UnexpectedAttempts(call') # {})
          => /\ call'.ret.kind = "raise"
             /\ call'.ret.exc = "StagingInsertError"
             /\ \E i \in UnexpectedAttempts(call') :
                   call'.ret.cause = call'.invoked[i].outcome]_vars

\* C26: a record that was folded into a summary is out of reach of the
\* recording calls: log_staging_insert, log_merge_operation,
\* log_validation_result and add_error leave every entry of both tables
\* mappings, and so its status, as it is; an entry is never removed, and it
\* changes only in an end_table_import that folds a record of the same table
\* name into the same summary.
FoldedRecordIsFrozen ==
    [][\A sel \in {"molo_summary", "stellar_summary"} :
         LET before == IF sel = "molo_summary" THEN molo_summary.tables
                       ELSE stellar_summary.tables
             after == IF sel = "molo_summary" THEN molo_summary'.tables
                      ELSE stellar_summary'.tables
         IN \A t \in DOMAIN before :
              /\ t \in DOMAIN after
              /\ last_op'.op \in RecordOps
                   => /\ after[t] = before[t]
                      /\ GetStatus(after[t]) = GetStatus(before[t])
              /\ after[t] # before[t]
                   => /\ last_op'.op = "end_table_import"
                      /\ last_op'.raised = ""
                      /\ GetSummary(last_op'.sys) = sel
                      /\ current_metrics # None
                      /\ current_metrics[1].table_name = t
                      /\ after[t] = folded'[Len(folded')].m]_vars

\* after BOATS was folded without a staging result, a second record was opened
\* and a staging result recorded on it: the folded entry shows none
FoldedRecordWitness ==
    /\ last_op.op = "log_staging_insert"
    /\ current_metrics # None
    /\ current_metrics[1].staging_inserted = 2
    /\ "BOATS" \in DOMAIN molo_summary.tables
    /\ molo_summary.tables["BOATS"].staging_inserted = 0
    /\ GetStatus(molo_summary.tables["BOATS"]) = "SKIPPED"

\* the positions of the _check_ids_exist calls among the calls of a check
Lookups(c) == {i \in 1..Len(c.calls) : c.calls[i].helper = "_check_ids_exist"}
\* the elements of a list
Elements(ids) == {ids[i] : i \in 1..Len(ids)}

\* C27: validate_table_import on a non-empty source looks up, in one call at
\* most, the identifiers of those of the first five source rows that have
\* one, and nothing of a later row; it emits at most one issue for missing
\* identifiers, whose list holds exactly the looked-up identifiers that are
\* not in the warehouse table, and, the lookup having completed, emits it
\* whenever there is such an identifier.
SampleIsFirstFiveRows ==
    (TableImportCall(check) /\ Len(check.csv_rows) > 0)
        => LET first == {i \in 1..Len(check.csv_rows) : i <= 5}
               with_id == {i \in first : Identified(check.csv_rows[i]) # {}}
               absent == Sampled(check.csv_rows) \ IdsIn(db[DwTable])
               missing == IssuesOf(check.ret[2], "Sample IDs not found in DW")
           IN /\ Cardinality(Lookups(check)) <= 1
              /\ (Lookups(check) # {}) <=> (with_id # {})
              /\ \A i \in Lookups(check) :
                    /\ check.calls[i].table = DwTable
                    /\ Len(check.calls[i].ids) = Cardinality(with_id)
                    /\ Elements(check.calls[i].ids) = Sampled(check.csv_rows)
              /\ Cardinality(missing) <= 1
              /\ \A i \in missing :
                    /\ check.ret[2][i].ids # <<>>
                    /\ Elements(check.ret[2][i].ids) = absent
              /\ (DataAccess("_check_ids_exist", DwTable) \notin check.faults
                   /\ absent # {}) => missing # {}

\* a source of six rows was validated against a warehouse table without the
\* id 1 of its first five rows and without the id 2 of its sixth: the issue
\* lists the id 1 and not the id 2
SampleWitness ==
    /\ TableImportCall(check)
    /\ Len(check.csv_rows) = 6
    /\ check.faults = {}
    /\ Identified(check.csv_rows[6]) = {"2"}
    /\ IdsIn(db[DwTable]) = {}
    /\ \E i \in 1..Len(check.ret[2]) :
          /\ check.ret[2][i].issue = "Sample IDs not found in DW"
          /\ check.ret[2][i].ids = <<"1", "1", "1", "1", "1">>

\* C28: every error the inserter, the merge executor and the validator
\* observe is recorded in the error log: a call in which the bulk attempt
\* raised, a call in which the merge routine or its commit raised, and a check
\* of the validator one of whose data-access calls raised, each leave the
\* error log longer than they found it.
ObservedErrorIsLogged ==
    [][(\/ /\ StagingCall(call')
           /\ call'.invoked # <<>>
           /\ call'.invoked[1].outcome # Ok
        \/ /\ MergeCall(call')
           /\ (call'.executed # Ok \/ call'.committed # Ok)
        \/ /\ check' # check
           /\ TableImportCall(check') \/ MergeCheckCall(check')
                \/ ReferentialCall(check')
           /\ check'.faults \cap Made(check') # {})
          => /\ Len(error_log') > Len(error_log)
             /\ SubSeq(error_log', 1, Len(error_log)) = error_log]_vars

\* the calls that name a system and reach its summary
SystemOps == {"start_system_import", "end_system_import", "end_table_import"}

\* C29: start_system_import, end_system_import and end_table_import given
\* MOLO in any letter case reach the MOLO summary and leave the Stellar
\* summary (tables, totals, start and end time) as it is; given Stellar in
\* any letter case they reach the Stellar summary and leave the MOLO summary
\* as it is; given another name they raise ValueError and change neither.
\* Where a call reaches a summary it has its effect there: the start time or
\* the end time is set, or the open record is entered under its table name.
SummariesAreIndependent ==
    [][(last_op' # last_op /\ last_op'.op \in SystemOps)
          => LET name == last_op'.sys
                 op == last_op'.op
                 Effect(before, after) ==
                     /\ op = "start_system_import" => after.start_time \in Times
                     /\ op = "end_system_import" => after.end_time \in Times
                     /\ (op = "end_table_import" /\ current_metrics # None)
                          => /\ current_metrics[1].table_name \in DOMAIN after.tables
                             /\ after.total_csv_rows = before.total_csv_rows
                                   + current_metrics[1].csv_row_count
             IN /\ name \in {"MOLO", "molo"}
                     => /\ stellar_summary' = stellar_summary
                        /\ last_op'.raised = ""
                        /\ Effect(molo_summary, molo_summary')
                /\ name \in {"Stellar", "stellar"}
                     => /\ molo_summary' = molo_summary
                        /\ last_op'.raised = ""
                        /\ Effect(stellar_summary, stellar_summary')
                /\ name \notin {"MOLO", "molo", "Stellar", "stellar"}
                     => /\ molo_summary' = molo_summary
                        /\ stellar_summary' = stellar_summary
                        /\ (op = "end_table_import" /\ current_metrics = None)
                             \/ last_op'.raised = "ValueError"]_vars

\* a record was folded into the MOLO summary under the name molo while the
\* Stellar run, started and holding a table, had not ended; the MOLO run had
\* ended before
IndependentWitness ==
    /\ last_op = [op |-> "end_table_import", sys |-> "molo", raised |-> ""]
    /\ DOMAIN molo_summary.tables = {"BOATS"}
    /\ molo_summary.total_csv_rows = 2
    /\ molo_summary.end_time # NoTime
    /\ DOMAIN stellar_summary.tables = {"SLIPS"}
    /\ stellar_summary.start_time # NoTime
    /\ stellar_summary.end_time = NoTime

\* C30: the system identifier given to start_table_import plays no part in
\* where the record goes: end_table_import with a record open folds it into
\* the summary its own argument names, and into no other, whichever
\* identifier the record was opened under, be it another system's or no
\* system's; when its argument names no system nothing is folded.
FoldedWhereEnded ==
    [][(last_op'.op = "end_table_import" /\ current_metrics # None)
          => LET named == Upper(last_op'.sys)
                 name == current_metrics[1].table_name
                 Entered(before, after) ==
                     /\ name \in DOMAIN after.tables
                     /\ after.tables[name].csv_file = current_metrics[1].csv_file
                     /\ after.total_csv_rows =
                           before.total_csv_rows + current_metrics[1].csv_row_count
             IN /\ named = "MOLO"
                     => /\ Entered(molo_summary, molo_summary')
                        /\ stellar_summary' = stellar_summary
                /\ named = "STELLAR"
                     => /\ Entered(stellar_summary, stellar_summary')
                        /\ molo_summary' = molo_summary
                /\ named \notin {"MOLO", "STELLAR"}
                     => /\ molo_summary' = molo_summary
                        /\ stellar_summary' = stellar_summary]_vars

\* BOATS, opened as a MOLO table, is in the Stellar summary only, and SLIPS,
\* opened under a name of no system, in the MOLO summary only
FoldedWhereEndedWitness ==
    /\ last_op.op = "end_table_import"
    /\ DOMAIN stellar_summary.tables = {"BOATS"}
    /\ stellar_summary.total_csv_rows = 2
    /\ DOMAIN molo_summary.tables = {"SLIPS"}
    /\ current_metrics = None

\* C31: end_table_import given a name of no system while a record is open
\* raises ValueError and leaves the tracker as it was: the record stays in the
\* slot as it is, its end time what it was (unset, for a record never ended),
\* and neither summary changes.
FailedEndLeavesRecord ==
    [][(/\ last_op'.op = "end_table_import"
        /\ current_metrics # None
        /\ Upper(last_op'.sys) \notin {"MOLO", "STELLAR"})
          => /\ last_op'.raised = "ValueError"
             /\ current_metrics' = current_metrics
             /\ current_metrics'[1].end_time = current_metrics[1].end_time
             /\ molo_summary' = molo_summary
             /\ stellar_summary' = stellar_summary
             /\ folded' = folded]_vars

\* C32: end_table_import with no record open does nothing, whatever name it
\* is given, that of a system or not: it raises nothing, the slot stays empty,
\* neither summary changes and nothing is folded; so an end_table_import that
\* follows one that returned folds nothing a second time.
EndWithoutOpenIsNoOp ==
    [][(last_op'.op = "end_table_import")
          => /\ current_metrics = None
                  => /\ last_op'.raised = ""
                     /\ current_metrics' = None
                     /\ molo_summary' = molo_summary
                     /\ stellar_summary' = stellar_summary
                     /\ folded' = folded
             /\ (last_op.op = "end_table_import" /\ last_op.raised = "")
                  => /\ folded' = folded
                     /\ molo_summary' = molo_summary
                     /\ stellar_summary' = stellar_summary]_vars

\* a record was folded into the MOLO summary, and the end_table_import that
\* followed, given a name of no system, returned: the record is folded once
EndWithoutOpenWitness ==
    /\ last_op = [op |-> "end_table_import", sys |-> "other", raised |-> ""]
    /\ current_metrics = None
    /\ Len(folded) = 1
    /\ folded[1].sys = "molo_summary"
    /\ DOMAIN molo_summary.tables = {folded[1].m.table_name}
    /\ molo_summary.total_csv_rows = folded[1].m.csv_row_count
    /\ folded[1].m.csv_row_count = 2

\* list a is the beginning of list b
IsPrefix(a, b) == Len(a) <= Len(b) /\ SubSeq(b, 1, Len(a)) = a
\* the errors a record holds for a stage
ErrorsOf(m, st) == IF st \in DOMAIN m.stage_errors THEN m.stage_errors[st] ELSE <<>>

\* C33: on an open record, log_staging_insert and log_merge_operation put the
\* counts of the call in the place of the counts the record held;
\* log_validation_result sets validation_passed to the value of the call and
\* adds the issues of the call at the end of validation_issues; add_error adds
\* its message at the end of the error list of its stage.  So no recording call
\* shortens the issue list or an error list of the open record, and a record
\* that holds an issue has the status WARNING or ERROR after any later
\* recording call, log_validation_result(True, []) included.
RecordingOverwritesOrAppends ==
    [][(last_op'.op \in RecordOps /\ current_metrics # None)
          => LET m == current_metrics[1]
                 n == current_metrics'[1]
                 k == recorded
             IN /\ current_metrics' # None
                /\ last_op'.op = "log_staging_insert"
                     => n = [m EXCEPT !.staging_inserted = StagingAt(k)[1],
                                      !.staging_errors = StagingAt(k)[2]]
                /\ last_op'.op = "log_merge_operation"
                     => n = [m EXCEPT !.merge_matched = MergeAt(k)[1],
                                      !.merge_inserted = MergeAt(k)[2],
                                      !.merge_updated = MergeAt(k)[3],
                                      !.merge_errors = MergeAt(k)[4]]
                /\ last_op'.op = "log_validation_result"
                     => \E v \in RecordValidations :
                          n = [m EXCEPT !.validation_passed = v[1],
                                        !.validation_issues =
                                            IF v[2] = None THEN @ ELSE @ \o v[2][1]]
                /\ last_op'.op = "add_error"
                     => \E st \in ImportStage, e \in ErrorMsgs :
                          /\ ErrorsOf(n, st) = Append(ErrorsOf(m, st), e)
                          /\ \A other \in ImportStage \ {st} :
                                ErrorsOf(n, other) = ErrorsOf(m, other)
                          /\ [n EXCEPT !.stage_errors = m.stage_errors] = m
                /\ IsPrefix(m.validation_issues, n.validation_issues)
                /\ \A st \in ImportStage : IsPrefix(ErrorsOf(m, st), ErrorsOf(n, st))
                /\ m.validation_issues # <<>>
                     => GetStatus(n) \in {"WARNING", "ERROR"}]_vars

\* a record received log_validation_result(False, [issue]) and then
\* log_validation_result(True, []) or (True, None): it passed, holds the issue
\* and has the status WARNING
RecordingWitness ==
    /\ last_op.op = "log_validation_result"
    /\ recorded = 2
    /\ current_metrics # None
    /\ current_metrics[1].validation_passed = TRUE
    /\ current_metrics[1].validation_issues = <<"row count mismatch">>
    /\ GetStatus(current_metrics[1]) = "WARNING"

\* the positions of a collaborator call among the events of a merge
Positions(events, name) == {i \in 1..Len(events) : events[i] = name}

====
